---- MODULE Spec2Model ----
(***************************************************************************)
(* Model of the template marker parser and of the section-table            *)
(* substitution of google-docs-generator.                                  *)
(*                                                                         *)
(* Text is a sequence of symbols.  A symbol is one character, except that  *)
(* the word "#ASSET_SECTION" and the type words ("text", "number",         *)
(* "email", "date") are single symbols: the code only ever compares them   *)
(* as wholes.                                                              *)
(***************************************************************************)
EXTENDS Integers, Sequences, FiniteSets, TLC

\* ------------------------------------------------------------------ bounds
\* Number of pieces a template text is put together from.
MaxPieces == 3

\* ------------------------------------------------------------ string helpers
\* The literal "#ASSET_SECTION:" of the three regular expressions.
KW == <<"#ASSET_SECTION", ":">>

Min(S) == CHOOSE m \in S : \A n \in S : m <= n

\* The value of a field a JSON object does not have; no index is negative.
Undefined == -1

\* String.prototype.startsWith at position i (1-based).
IsPrefixAt(t, i, p) ==
    /\ i >= 1
    /\ i + Len(p) - 1 <= Len(t)
    /\ \A k \in 1..Len(p) : t[i + k - 1] = p[k]

\* First position >= i holding "}" (Len(t)+1 if none): where a greedy [^}]+
\* started at i stops.
RunEnd(t, i) ==
    LET stops == {j \in i..Len(t) : t[j] = "}"}
    IN  IF stops = {} THEN Len(t) + 1 ELSE Min(stops)

\* String.prototype.trim (the only white space of the alphabet is " ").
RECURSIVE TrimLeft(_)
TrimLeft(s) == IF s # <<>> /\ Head(s) = " " THEN TrimLeft(Tail(s)) ELSE s

RECURSIVE TrimRight(_)
TrimRight(s) ==
    IF s # <<>> /\ s[Len(s)] = " " THEN TrimRight(SubSeq(s, 1, Len(s) - 1)) ELSE s

trim(s) == TrimRight(TrimLeft(s))

\* Position of the first c in s at or after i, 0 if none.
IndexOf(s, c, i) ==
    LET hits == {j \in i..Len(s) : s[j] = c}
    IN  IF hits = {} THEN 0 ELSE Min(hits)

\* A split at the first ':' only: what is before it, and all that is after it.
splitAtFirst(s) ==
    LET c == IndexOf(s, ":", 1)
    IN  IF c = 0 THEN <<s>> ELSE <<SubSeq(s, 1, c - 1), SubSeq(s, c + 1, Len(s))>>

\* String.prototype.split(':'), the segments as a sequence.
RECURSIVE split(_)
split(s) ==
    LET c == IndexOf(s, ":", 1)
    IN  IF c = 0 THEN <<s>>
        ELSE <<SubSeq(s, 1, c - 1)>> \o split(SubSeq(s, c + 1, Len(s)))

\* ------------------------------------------------------- extractVariables
\* /\{\{([^}]+)\}\}/ matched at position s.
VariableMatchAt(t, s) ==
    /\ IsPrefixAt(t, s, <<"{", "{">>)
    /\ LET e == RunEnd(t, s + 2)
       IN  e > s + 2 /\ IsPrefixAt(t, e, <<"}", "}">>)

\* The exec loop of the global regex: the matches, left to right, each
\* [from, to] (inclusive).
RECURSIVE VariableMatches(_, _)
VariableMatches(t, i) ==
    IF i > Len(t) THEN <<>>
    ELSE IF VariableMatchAt(t, i)
         THEN LET e == RunEnd(t, i + 2)
              IN  <<[from |-> i, to |-> e + 1]>> \o VariableMatches(t, e + 2)
         ELSE VariableMatches(t, i + 1)

\* "{{#ASSET_SECTION:" [^}]+ "}}" at s.
OpenTagAt(t, s) ==
    /\ IsPrefixAt(t, s, <<"{", "{">> \o KW)
    /\ LET e == RunEnd(t, s + 4)
       IN  e > s + 4 /\ IsPrefixAt(t, e, <<"}", "}">>)

OpenTagName(t, s) == SubSeq(t, s + 4, RunEnd(t, s + 4) - 1)
OpenTagEnd(t, s) == RunEnd(t, s + 4) + 2

\* "{{/#ASSET_SECTION:" [^}]+ "}}" at q.
CloseTagAt(t, q) ==
    /\ IsPrefixAt(t, q, <<"{", "{", "/">> \o KW)
    /\ LET e == RunEnd(t, q + 5)
       IN  e > q + 5 /\ IsPrefixAt(t, e, <<"}", "}">>)

CloseTagName(t, q) == SubSeq(t, q + 5, RunEnd(t, q + 5) - 1)
CloseTagEnd(t, q) == RunEnd(t, q + 5) + 2

\* Where the lazy [\s\S]*? of assetSectionRegex stops: the first closing tag,
\* of any name, at or after the end of the opening tag (0 if none).
AnyCloseAfter(t, i) ==
    LET qs == {q \in i..Len(t) : CloseTagAt(t, q)}
    IN  IF qs = {} THEN 0 ELSE Min(qs)

\* A scan that removes no asset-section block before the variables are read.
KeepAssetSections(t, i) == SubSeq(t, i, Len(t))

\* content.replace(assetSectionRegex, ''): the text from i on with every match
\* of the regex removed.
RECURSIVE StripAssetSections(_, _)
StripAssetSections(t, i) ==
    IF i > Len(t) THEN <<>>
    ELSE IF OpenTagAt(t, i) /\ AnyCloseAfter(t, OpenTagEnd(t, i)) # 0
         THEN StripAssetSections(t, CloseTagEnd(t, AnyCloseAfter(t, OpenTagEnd(t, i))))
         ELSE <<t[i]>> \o StripAssetSections(t, i + 1)

\* A safety check that lets every placeholder content through.
IsAssetMarkerNever(variableContent) == FALSE

\* The "safety check" on a trimmed placeholder content.
IsAssetMarker(variableContent) ==
    \/ IsPrefixAt(variableContent, 1, KW)
    \/ IsPrefixAt(variableContent, 1, <<"/">> \o KW)

\* One match of variableRegex as the loop body sees it.
VariableOf(t, m) ==
    LET variableContent == trim(SubSeq(t, m.from + 2, m.to - 2))
        parts == split(variableContent)
        type == IF Len(parts) >= 2 THEN trim(parts[2]) ELSE <<>>
    IN  [name |-> trim(parts[1]),
         placeholder |-> SubSeq(t, m.from, m.to),
         type |-> IF type = <<>> THEN <<"text">> ELSE type,
         skip |-> IsAssetMarker(variableContent)]

\* A loop that pushes every match, whether its name was seen or not.
RECURSIVE CollectEveryMatch(_, _, _)
CollectEveryMatch(t, ms, seen) ==
    IF ms = <<>> THEN <<>>
    ELSE LET v == VariableOf(t, Head(ms))
         IN  IF v.skip
             THEN CollectEveryMatch(t, Tail(ms), seen)
             ELSE <<[name |-> v.name, placeholder |-> v.placeholder, type |-> v.type]>>
                  \o CollectEveryMatch(t, Tail(ms), seen)

\* The while loop over the matches with its `seen` set.
RECURSIVE CollectVariables(_, _, _)
CollectVariables(t, ms, seen) ==
    IF ms = <<>> THEN <<>>
    ELSE LET v == VariableOf(t, Head(ms))
         IN  IF v.skip \/ v.name \in seen
             THEN CollectVariables(t, Tail(ms), seen)
             ELSE <<[name |-> v.name, placeholder |-> v.placeholder, type |-> v.type]>>
                  \o CollectVariables(t, Tail(ms), seen \cup {v.name})

\* The cursor of a regex object the function body has just made from its literal.
lastIndex == 0

extractVariables(content) ==
    LET contentWithoutAssetSections == StripAssetSections(content, 1)
    IN  CollectVariables(contentWithoutAssetSections,
                         VariableMatches(contentWithoutAssetSections, lastIndex + 1), {})

\* ----------------------------------------------------- parseAssetSections
\* Where the lazy [\s\S]*? stops when the closing tag must repeat group 1.
SameCloseAfter(t, i, name) ==
    LET tag == <<"{", "{", "/">> \o KW \o name \o <<"}", "}">>
        qs == {q \in i..Len(t) : IsPrefixAt(t, q, tag)}
    IN  IF qs = {} THEN 0 ELSE Min(qs)

RECURSIVE AssetSectionMatches(_, _)
AssetSectionMatches(t, i) ==
    IF i > Len(t) THEN <<>>
    ELSE IF OpenTagAt(t, i) /\ SameCloseAfter(t, OpenTagEnd(t, i), OpenTagName(t, i)) # 0
         THEN LET q == SameCloseAfter(t, OpenTagEnd(t, i), OpenTagName(t, i))
                  to == q + 5 + Len(OpenTagName(t, i)) + 1
              IN  <<[from |-> i, bodyFrom |-> OpenTagEnd(t, i), bodyTo |-> q - 1,
                     to |-> to]>>
                  \o AssetSectionMatches(t, to + 1)
         ELSE AssetSectionMatches(t, i + 1)

parseAssetSections(content) ==
    LET ms == AssetSectionMatches(content, lastIndex + 1)
    IN  [k \in 1..Len(ms) |->
            [name |-> trim(OpenTagName(content, ms[k].from)),
             placeholder |-> SubSeq(content, ms[k].from, ms[k].to),
             type |-> "asset_section",
             template |-> trim(SubSeq(content, ms[k].bodyFrom, ms[k].bodyTo))]]

\* ------------------------------------------------------ parseTemplateFields
\* A loop that pushes the name of every match.
RECURSIVE CollectEveryField(_, _, _)
CollectEveryField(t, ms, fields) ==
    IF ms = <<>> THEN fields
    ELSE CollectEveryField(t, Tail(ms),
            Append(fields, trim(SubSeq(t, Head(ms).from + 2, Head(ms).to - 2))))

\* The while loop: `if (!fields.includes(fieldName)) fields.push(fieldName)`.
RECURSIVE CollectFields(_, _, _)
CollectFields(t, ms, fields) ==
    IF ms = <<>> THEN fields
    ELSE LET fieldName == trim(SubSeq(t, Head(ms).from + 2, Head(ms).to - 2))
         IN  CollectFields(t, Tail(ms),
                IF \E k \in 1..Len(fields) : fields[k] = fieldName
                THEN fields ELSE Append(fields, fieldName))

parseTemplateFieldsEveryMatch(template) ==
    CollectEveryField(template, VariableMatches(template, lastIndex + 1), <<>>)

parseTemplateFields(template) ==
    CollectFields(template, VariableMatches(template, lastIndex + 1), <<>>)

\* ---------------------------------------------- replaceVariablesInDocument
\* Letter case as replaceAllText with matchCase: false folds it.
Lower(c) == IF c = "X" THEN "x" ELSE c

MatchesAt(t, i, p, matchCase) ==
    /\ i + Len(p) - 1 <= Len(t)
    /\ \A k \in 1..Len(p) :
          IF matchCase THEN t[i + k - 1] = p[k] ELSE Lower(t[i + k - 1]) = Lower(p[k])

\* One replaceAllText request applied to a text, as string replacement: every
\* occurrence, left to right, none overlapping.
RECURSIVE ReplaceAllFrom(_, _, _)
ReplaceAllFrom(t, i, r) ==
    IF i > Len(t) THEN <<>>
    ELSE IF Len(r.text) > 0 /\ MatchesAt(t, i, r.text, r.matchCase)
         THEN r.replaceText \o ReplaceAllFrom(t, i + Len(r.text), r)
         ELSE <<t[i]>> \o ReplaceAllFrom(t, i + 1, r)

\* The requests of one batchUpdate applied in order.
RECURSIVE ApplyRequests(_, _)
ApplyRequests(t, rs) ==
    IF rs = <<>> THEN t
    ELSE ApplyRequests(ReplaceAllFrom(t, 1, Head(rs)), Tail(rs))

\* The literal spellings replaceVariablesInDocument generates for one name.
patterns(variableName) ==
    << <<"{", "{">> \o variableName \o <<"}", "}">>,
       <<"{", "{", " ">> \o variableName \o <<" ", "}", "}">>,
       <<"{", "{">> \o variableName \o <<":", "text", "}", "}">>,
       <<"{", "{">> \o variableName \o <<":", "email", "}", "}">>,
       <<"{", "{">> \o variableName \o <<":", "number", "}", "}">>,
       <<"{", "{">> \o variableName \o <<":", "date", "}", "}">> >>

\* The inner loop: one replaceAllText request per pattern.
VariableRequests(variableName, value) ==
    [k \in 1..Len(patterns(variableName)) |->
        [text |-> patterns(variableName)[k], matchCase |-> FALSE, replaceText |-> value]]

\* The outer loop over Object.entries(variables), in insertion order.
RECURSIVE replaceVariablesInDocument(_)
replaceVariablesInDocument(entries) ==
    IF entries = <<>> THEN <<>>
    ELSE VariableRequests(Head(entries).key, Head(entries).value)
         \o replaceVariablesInDocument(Tail(entries))

\* ----------------------------------------------------------- replaceVariables
\* The first position at or after p that holds no space.
RECURSIVE SkipSpaces(_, _)
SkipSpaces(t, p) == IF p <= Len(t) /\ t[p] = " " THEN SkipSpaces(t, p + 1) ELSE p

\* new RegExp(`\\{\\{\\s*${key}(?::[^}]*)?\\s*\\}\\}`) matched at position s:
\* the position of the last character of the match, 0 when there is none.
PreviewMatchEnd(t, s, key) ==
    IF ~IsPrefixAt(t, s, <<"{", "{">>) THEN 0
    ELSE LET k == SkipSpaces(t, s + 2)
             a == k + Len(key)
         IN  IF ~IsPrefixAt(t, k, key) THEN 0
             ELSE IF a <= Len(t) /\ t[a] = ":"
                  THEN IF IsPrefixAt(t, RunEnd(t, a + 1), <<"}", "}">>)
                       THEN RunEnd(t, a + 1) + 1 ELSE 0
                  ELSE IF IsPrefixAt(t, SkipSpaces(t, a), <<"}", "}">>)
                       THEN SkipSpaces(t, a) + 1 ELSE 0

\* result.replace(regex, replacement) with the global flag.
RECURSIVE ReplacePreview(_, _, _, _)
ReplacePreview(t, at, key, replacement) ==
    IF at > Len(t) THEN <<>>
    ELSE IF PreviewMatchEnd(t, at, key) # 0
         THEN replacement \o ReplacePreview(t, PreviewMatchEnd(t, at, key) + 1, key, replacement)
         ELSE <<t[at]>> \o ReplacePreview(t, at + 1, key, replacement)

\* The loop over Object.entries(values): `value || {{key}}` for every key.
RECURSIVE replaceVariables(_, _)
replaceVariables(t, entries) ==
    IF entries = <<>> THEN t
    ELSE replaceVariables(
            ReplacePreview(t, 1, Head(entries).key,
                           IF Head(entries).value # <<>> THEN Head(entries).value
                           ELSE <<"{", "{">> \o Head(entries).key \o <<"}", "}">>),
            Tail(entries))

\* ------------------------------------------------- generateAssetSectionTable
\* A cell of the generated table: its text, whether the text run is bold
\* (textStyle without `bold` is not bold), and the columnSpan of its
\* tableCellStyle (Undefined when the style sets none).
LayoutCell(text, bold, alignment, columnSpan) ==
    [content |-> text, bold |-> bold, alignment |-> alignment, columnSpan |-> columnSpan]

TitleRow(section) ==
    <<LayoutCell(section.title, TRUE, "CENTER", 2)>>

\* A field row with the value in the bold first cell and the key after it.
FieldRowValueFirst(field) ==
    << LayoutCell(<<":", " ">> \o field.value, TRUE, "START", Undefined),
       LayoutCell(field.key, FALSE, "START", Undefined) >>

FieldRow(field) ==
    << LayoutCell(field.key, TRUE, "START", Undefined),
       LayoutCell(<<":", " ">> \o field.value, FALSE, "START", Undefined) >>

generateAssetSectionTable(section) ==
    [columns |-> 2,
     tableRows |->
        (IF section.title # <<>> THEN <<TitleRow(section)>> ELSE <<>>)
        \o [k \in 1..Len(section.fields) |-> FieldRow(section.fields[k])]]

\* ============================================================ section tables
\* The document store keeps a document as the sequence of its index slots:
\* the slot at position k has document index k.  A slot holds a character, the
\* newline that ends a paragraph, or one of the marks of a table: the start of
\* the table, of a row, of a cell, and the end of the table.
NL == "\n"
TBL == "<table>"
ROW == "<row>"
CELL == "<cell>"
END == "</table>"
TableMarks == {TBL, ROW, CELL, END}

\* ---------------------------------------------------- the document as JSON
\* body.content: the top-level structural elements with their native indices.
RECURSIVE BodyContent(_, _)
BodyContent(d, i) ==
    IF i > Len(d) THEN <<>>
    ELSE LET stop == IF d[i] = TBL THEN END ELSE NL
             ends == {j \in i..Len(d) : d[j] = stop}
             e == IF ends = {} THEN Len(d) ELSE Min(ends)
         IN  <<[kind |-> IF d[i] = TBL THEN "table" ELSE "paragraph",
                startIndex |-> i, endIndex |-> e + 1]>> \o BodyContent(d, e + 1)

\* table.tableRows of the table element el: per row its cells, per cell the
\* structural elements of its content (one paragraph per newline).
CellContent(d, c, stop) ==
    LET nls == {j \in (c + 1)..(stop - 1) : d[j] = NL}
        starts == {c + 1} \cup {j + 1 : j \in {n \in nls : n + 1 < stop}}
        RECURSIVE Sorted(_)
        Sorted(S) == IF S = {} THEN <<>> ELSE <<Min(S)>> \o Sorted(S \ {Min(S)})
        ps == IF c + 1 >= stop THEN <<>> ELSE Sorted(starts)
    IN  [k \in 1..Len(ps) |->
            [startIndex |-> ps[k], paragraph |-> TRUE,
             elements |-> <<[startIndex |-> ps[k]]>>]]

TableRows(d, el) ==
    LET marks(m, from, to) == {j \in from..to : d[j] = m}
        RECURSIVE Sorted(_)
        Sorted(S) == IF S = {} THEN <<>> ELSE <<Min(S)>> \o Sorted(S \ {Min(S)})
        last == el.endIndex - 2
        rows == Sorted(marks(ROW, el.startIndex, last))
        rowStop(r) == IF r < Len(rows) THEN rows[r + 1] ELSE el.endIndex - 1
        cells(r) == Sorted(marks(CELL, rows[r], rowStop(r) - 1))
        cellStop(r, k) == IF k < Len(cells(r)) THEN cells(r)[k + 1] ELSE rowStop(r)
    IN  [r \in 1..Len(rows) |->
            [k \in 1..Len(cells(r)) |->
                [startIndex |-> cells(r)[k],
                 content |-> CellContent(d, cells(r)[k], cellStop(r, k))]]]

\* -------------------------------------------------------------- getCellIndex
Thrown == [ok |-> FALSE, index |-> 0]
Returned(n) == [ok |-> TRUE, index |-> n]

\* A lookup that returns the native start index of the cell's first paragraph.
getCellIndexNative(tableRows, rowIndex, colIndex) ==
    IF rowIndex + 1 > Len(tableRows) THEN Thrown
    ELSE IF colIndex + 1 > Len(tableRows[rowIndex + 1]) THEN Thrown
    ELSE LET cell == tableRows[rowIndex + 1][colIndex + 1]
         IN  IF cell.content = <<>> THEN Thrown
             ELSE IF cell.content[1].startIndex = Undefined THEN Thrown
             ELSE Returned(cell.content[1].startIndex)

\* rowIndex and colIndex count from 0, as in the code.
getCellIndex(tableRows, rowIndex, colIndex) ==
    IF rowIndex + 1 > Len(tableRows) THEN Thrown
    ELSE IF colIndex + 1 > Len(tableRows[rowIndex + 1]) THEN Thrown
    ELSE LET cell == tableRows[rowIndex + 1][colIndex + 1]
         IN  IF cell.content = <<>> THEN Thrown
             ELSE LET c == cell.content[1]
                  IN  IF ~c.paragraph THEN Thrown
                      ELSE IF c.startIndex # Undefined THEN Returned(c.startIndex + 1)
                      ELSE IF c.elements # <<>>
                           THEN Returned(IF c.elements[1].startIndex = Undefined
                                         THEN 0 ELSE c.elements[1].startIndex)
                      ELSE Thrown

\* --------------------------------------------------- findTableElementAtIndex
ToleranceBefore == 5
ToleranceAfter == 50

NoElement == [kind |-> "none", startIndex |-> 0, endIndex |-> 0]

findTableElementAtIndex(d, insertionPoint) ==
    LET els == BodyContent(d, 1)
        near == {k \in 1..Len(els) :
                    /\ els[k].kind = "table"
                    /\ els[k].startIndex >= insertionPoint - ToleranceBefore
                    /\ els[k].startIndex <= insertionPoint + ToleranceAfter}
        after == {k \in 1..Len(els) :
                    els[k].kind = "table" /\ els[k].startIndex >= insertionPoint}
    IN  IF near # {} THEN els[Min(near)]
        ELSE IF after # {} THEN els[Min(after)]
        ELSE NoElement

\* ------------------------------------------------------------- the requests
NoRequest ==
    [op |-> "", index |-> 0, endIndex |-> 0, text |-> <<>>, rows |-> 0, columns |-> 0,
     rowIndex |-> 0, columnIndex |-> 0, rowSpan |-> 0, columnSpan |-> 0,
     bold |-> FALSE, fontSize |-> 0, alignment |-> "", cell |-> <<>>]

DeleteContentRange(s, e) ==
    [NoRequest EXCEPT !.op = "deleteContentRange", !.index = s, !.endIndex = e]
InsertTable(rows, columns, index) ==
    [NoRequest EXCEPT !.op = "insertTable", !.rows = rows, !.columns = columns,
                      !.index = index]
MergeTableCells(tableStart, rowIndex, columnIndex, rowSpan, columnSpan) ==
    [NoRequest EXCEPT !.op = "mergeTableCells", !.index = tableStart,
                      !.rowIndex = rowIndex, !.columnIndex = columnIndex,
                      !.rowSpan = rowSpan, !.columnSpan = columnSpan]
\* cell: the (row, column) whose index the code looked up for this request.
InsertText(text, index, cell) ==
    [NoRequest EXCEPT !.op = "insertText", !.text = text, !.index = index,
                      !.cell = cell]
UpdateTextStyle(s, e, bold, fontSize, cell) ==
    [NoRequest EXCEPT !.op = "updateTextStyle", !.index = s, !.endIndex = e,
                      !.bold = bold, !.fontSize = fontSize, !.cell = cell]
UpdateParagraphStyle(s, e, alignment, cell) ==
    [NoRequest EXCEPT !.op = "updateParagraphStyle", !.index = s, !.endIndex = e,
                      !.alignment = alignment, !.cell = cell]

\* -------------------------------------------------------- createSectionTable
\* The insertTable request of the first batch.
TableRequests(section, insertionPoint) ==
    <<InsertTable(1 + Len(section.keyValuePairs), 2, insertionPoint)>>

\* A callback that fills the value cell before the key cell.
PairRequestsValueFirst(tableRows, pair, index) ==
    LET rowIndex == index + 1
        keyCellIndex == getCellIndex(tableRows, rowIndex, 0).index
        valueCellIndex == getCellIndex(tableRows, rowIndex, 1).index
    IN  << InsertText(pair.value, valueCellIndex + 1, <<rowIndex, 1>>),
           UpdateTextStyle(valueCellIndex, valueCellIndex + Len(pair.value), FALSE, 12,
                           <<rowIndex, 1>>),
           InsertText(pair.key, keyCellIndex + 1, <<rowIndex, 0>>),
           UpdateTextStyle(keyCellIndex, keyCellIndex + Len(pair.key), TRUE, 12,
                           <<rowIndex, 0>>) >>

\* The four requests the forEach callback pushes for the pair at `index`
\* (counted from 0).
PairRequests(tableRows, pair, index) ==
    LET rowIndex == index + 1
        keyCellIndex == getCellIndex(tableRows, rowIndex, 0).index
        valueCellIndex == getCellIndex(tableRows, rowIndex, 1).index
    IN  << InsertText(pair.key, keyCellIndex + 1, <<rowIndex, 0>>),
           UpdateTextStyle(keyCellIndex, keyCellIndex + Len(pair.key), TRUE, 12,
                           <<rowIndex, 0>>),
           InsertText(pair.value, valueCellIndex + 1, <<rowIndex, 1>>),
           UpdateTextStyle(valueCellIndex, valueCellIndex + Len(pair.value), FALSE, 12,
                           <<rowIndex, 1>>) >>

RECURSIVE AllPairRequests(_, _, _)
AllPairRequests(tableRows, pairs, index) ==
    IF index >= Len(pairs) THEN <<>>
    ELSE PairRequests(tableRows, pairs[index + 1], index)
         \o AllPairRequests(tableRows, pairs, index + 1)

\* The second batch, built from the document fetched after the first.
StylingRequests(tableRows, tableStartIndex, section) ==
    LET titleCellIndex == getCellIndex(tableRows, 0, 0).index
    IN  << MergeTableCells(tableStartIndex, 0, 0, 1, 2),
           InsertText(section.title, titleCellIndex + 1, <<0, 0>>),
           UpdateTextStyle(titleCellIndex, titleCellIndex + Len(section.title),
                           TRUE, 14, <<0, 0>>),
           UpdateParagraphStyle(titleCellIndex, titleCellIndex + Len(section.title),
                                "CENTER", <<0, 0>>) >>
        \o AllPairRequests(tableRows, section.keyValuePairs, 0)

\* Whether building the second batch throws: no table found, or a cell missing.
StylingThrows(d, insertionPoint, section) ==
    LET el == findTableElementAtIndex(d, insertionPoint)
    IN  \/ el = NoElement
        \/ ~getCellIndex(TableRows(d, el), 0, 0).ok
        \/ \E r \in 1..Len(section.keyValuePairs) :
              \/ ~getCellIndex(TableRows(d, el), r, 0).ok
              \/ ~getCellIndex(TableRows(d, el), r, 1).ok

\* ------------------------------------------------------- the document store
InParagraph(d, index) == index \in 1..Len(d) /\ d[index] \notin TableMarks

\* The slots of an empty table: every cell holds one empty paragraph.
EmptyTable(rows, columns) ==
    LET cell == <<CELL, NL>>
        RECURSIVE Times(_, _)
        Times(x, n) == IF n = 0 THEN <<>> ELSE x \o Times(x, n - 1)
    IN  <<TBL>> \o Times(<<ROW>> \o Times(cell, columns), rows) \o <<END>>

Rejected(d) == [ok |-> FALSE, doc |-> d]
Applied(d) == [ok |-> TRUE, doc |-> d]

\* One request applied by the store.  A request at an index that is in no
\* paragraph, or over a range that is not text of the document, is rejected.
ApplyRequest(d, r) ==
    CASE r.op = "deleteContentRange" ->
            IF /\ 1 <= r.index /\ r.index < r.endIndex /\ r.endIndex <= Len(d)
               /\ \A j \in r.index..(r.endIndex - 1) : d[j] \notin TableMarks
            THEN Applied(SubSeq(d, 1, r.index - 1) \o SubSeq(d, r.endIndex, Len(d)))
            ELSE Rejected(d)
      [] r.op = "insertTable" ->
            \* a newline is inserted before the table
            IF InParagraph(d, r.index) /\ r.rows >= 1 /\ r.columns >= 1
            THEN Applied(SubSeq(d, 1, r.index - 1) \o <<NL>>
                         \o EmptyTable(r.rows, r.columns)
                         \o SubSeq(d, r.index, Len(d)))
            ELSE Rejected(d)
      [] r.op = "insertText" ->
            IF InParagraph(d, r.index)
            THEN Applied(SubSeq(d, 1, r.index - 1) \o r.text
                         \o SubSeq(d, r.index, Len(d)))
            ELSE Rejected(d)
      [] r.op = "mergeTableCells" ->
            IF r.index \in 1..Len(d) /\ d[r.index] = TBL THEN Applied(d) ELSE Rejected(d)
      [] r.op \in {"updateTextStyle", "updateParagraphStyle"} ->
            IF 1 <= r.index /\ r.index < r.endIndex /\ r.endIndex <= Len(d) + 1
            THEN Applied(d) ELSE Rejected(d)
      [] OTHER -> Rejected(d)

\* documents.batchUpdate: the requests in order, all of them or none.
RECURSIVE ApplyBatch(_, _)
ApplyBatch(d, rs) ==
    IF rs = <<>> THEN Applied(d)
    ELSE LET one == ApplyRequest(d, Head(rs))
         IN  IF one.ok THEN ApplyBatch(one.doc, Tail(rs)) ELSE Rejected(d)

BatchUpdate(d, rs) == IF ApplyBatch(d, rs).ok THEN ApplyBatch(d, rs) ELSE Rejected(d)

\* --------------------------------------------------- replaceSectionVariables
MarkerOpen == <<"[", "[", "s", "e", "c", "t", "i", "o", "n", ":">>
Marker(name) == MarkerOpen \o name \o <<"]", "]">>

\* /\[\[section:([^\]]+)\]\]/ matched at position s of t.
MarkerNameEnd(t, s) ==
    LET stops == {j \in (s + Len(MarkerOpen))..Len(t) : t[j] = "]"}
    IN  IF stops = {} THEN Len(t) + 1 ELSE Min(stops)

MarkerAt(t, s) ==
    /\ IsPrefixAt(t, s, MarkerOpen)
    /\ MarkerNameEnd(t, s) > s + Len(MarkerOpen)
    /\ IsPrefixAt(t, MarkerNameEnd(t, s), <<"]", "]">>)

\* The exec loop over one text run that starts at document index startIndex.
RECURSIVE RunMarkers(_, _, _)
RunMarkers(text, startIndex, i) ==
    IF i > Len(text) THEN <<>>
    ELSE IF MarkerAt(text, i)
         THEN LET e == MarkerNameEnd(text, i)
              IN  <<[name |-> SubSeq(text, i + Len(MarkerOpen), e - 1),
                     startIndex |-> startIndex + (i - 1),
                     endIndex |-> startIndex + (i - 1) + (e + 2 - i)]>>
                  \o RunMarkers(text, startIndex, e + 2)
         ELSE RunMarkers(text, startIndex, i + 1)

\* A scan of the flattened text of the document, whose offsets count from 0
\* and pass over the structure of tables.
ScanFlattened(d, els) ==
    LET IsText(c) == c \notin TableMarks
    IN  RunMarkers(SelectSeq(d, IsText), 0, 1)

\* The scan of the top-level paragraphs; a paragraph is one text run.
RECURSIVE ScanElements(_, _)
ScanElements(d, els) ==
    IF els = <<>> THEN <<>>
    ELSE (IF Head(els).kind = "paragraph"
          THEN RunMarkers(SubSeq(d, Head(els).startIndex, Head(els).endIndex - 1),
                          Head(els).startIndex, 1)
          ELSE <<>>)
         \o ScanElements(d, Tail(els))

\* The extracted text of a document in the store: the text of its paragraphs,
\* those in table cells included, without the structure.
IsTextSlot(c) == c \notin TableMarks
DocumentText(d) == SelectSeq(d, IsTextSlot)

\* extractSectionVariables: the names of the markers of a text, left to right.
extractSectionVariables(text) ==
    LET found == RunMarkers(text, 0, 1)
    IN  [k \in 1..Len(found) |-> found[k].name]

\* The markers in the opposite order: the first of the document comes last.
SectionVariablesLastFirst(d) ==
    LET found == ScanElements(d, BodyContent(d, 1))
    IN  [k \in 1..Len(found) |-> found[Len(found) + 1 - k]]

SectionVariablesOf(d) == ScanElements(d, BodyContent(d, 1))

NoSection == [title |-> <<>>, keyValuePairs |-> <<>>, given |-> FALSE]

Blank(str) == trim(str) = <<>>

\* The "Validate section has content" test: TRUE when the marker is skipped.
SkipsSection(section) ==
    \/ section.title = <<>>
    \/ Len(section.keyValuePairs) = 0
    \/ \A k \in 1..Len(section.keyValuePairs) :
          Blank(section.keyValuePairs[k].key) \/ Blank(section.keyValuePairs[k].value)

\* ------------------------------------------------------ handleAssetSections
\* The document as JSON for the text extractors: body.content is a sequence of
\* elements, a paragraph with the contents of its text runs or a table with
\* rows of cells, a cell holding paragraphs.
Paragraph(runs) == [kind |-> "paragraph", elements |-> runs, tableRows |-> <<>>]
Table(rows) == [kind |-> "table", elements |-> <<>>, tableRows |-> rows]

RECURSIVE Concat(_)
Concat(ps) == IF ps = <<>> THEN <<>> ELSE Head(ps) \o Concat(Tail(ps))

\* The text of the paragraphs of one table, row by row and cell by cell.
TableText(rows) ==
    Concat([r \in 1..Len(rows) |->
        Concat([c \in 1..Len(rows[r]) |->
            Concat([p \in 1..Len(rows[r][c]) |-> Concat(rows[r][c][p])])])])

\* The text of the top-level paragraphs and of the paragraphs in table cells.
extractTextFromDocument(body) ==
    Concat([k \in 1..Len(body) |->
        IF body[k].kind = "paragraph" THEN Concat(body[k].elements)
        ELSE IF body[k].kind = "table" THEN TableText(body[k].tableRows)
        ELSE <<>>])

extractFullDocumentText(body) ==
    Concat([k \in 1..Len(body) |->
        IF body[k].kind = "paragraph" THEN Concat(body[k].elements)
        ELSE IF body[k].kind = "table" THEN TableText(body[k].tableRows)
        ELSE <<>>])

\* The text of the top-level paragraphs only.
extractTextFromDocumentSimple(body) ==
    Concat([k \in 1..Len(body) |->
        IF body[k].kind = "paragraph" THEN Concat(body[k].elements) ELSE <<>>])

Max(S) == CHOOSE m \in S : \A n \in S : m >= n

Spaces(n) == [k \in 1..n |-> " "]

\* The lines of the fields: key, spaces up to the column `padding`, ": ", value.
FieldLines(sectionFields, padding) ==
    Concat([k \in 1..Len(sectionFields) |->
        sectionFields[k].key
        \o Spaces(Max({0, padding - Len(sectionFields[k].key)}))
        \o <<":", " ">> \o sectionFields[k].value \o <<NL>>])

\* A padding that is the minimum whatever the keys.
MinimumPadding(sectionFields, minimum, margin) == minimum

\* Math.max(...keys' lengths): -Infinity for no field, and then the minimum
\* padding wins.
Padding(sectionFields, minimum, margin) ==
    IF sectionFields = <<>> THEN minimum
    ELSE Max({minimum, Max({Len(sectionFields[k].key) : k \in 1..Len(sectionFields)}) + margin})

generateTableAsText(sec) ==
    (IF sec.title # <<>> THEN sec.title \o <<NL, NL>> ELSE <<>>)
    \o FieldLines(sec.fields, Padding(sec.fields, 25, 5))

\* The rendering written out in the loop of the handleAssetSections that scans
\* the full text.
FormattedSection(sec) ==
    (IF sec.title # <<>> THEN sec.title \o <<NL, NL>> ELSE <<>>)
    \o FieldLines(sec.fields, Padding(sec.fields, 30, 10))

\* The loops over assetSectionData.sections, with an empty line between two.
RECURSIVE ReplacementContent(_, _)
ReplacementContent(secs, k) ==
    IF k > Len(secs) THEN <<>>
    ELSE (IF k > 1 THEN <<NL, NL>> ELSE <<>>) \o generateTableAsText(secs[k])
         \o ReplacementContent(secs, k + 1)

RECURSIVE FormattedContent(_, _)
FormattedContent(secs, k) ==
    IF k > Len(secs) THEN <<>>
    ELSE (IF k > 1 THEN <<NL, NL>> ELSE <<>>) \o FormattedSection(secs[k])
         \o FormattedContent(secs, k + 1)

ReplaceAllText(text, replaceText) ==
    [text |-> text, matchCase |-> FALSE, replaceText |-> replaceText]

\* A loop that pushes a request for every match, whether its name was
\* processed or not.
RECURSIVE PushEveryBlock(_, _, _, _)
PushEveryBlock(t, ms, processedSections, secs) ==
    IF ms = <<>> THEN <<>>
    ELSE <<ReplaceAllText(SubSeq(t, Head(ms).from, Head(ms).to),
                          ReplacementContent(secs, 1))>>
         \o PushEveryBlock(t, Tail(ms), processedSections, secs)

\* The while loop with its `processedSections` set.
RECURSIVE PushOncePerName(_, _, _, _)
PushOncePerName(t, ms, processedSections, secs) ==
    IF ms = <<>> THEN <<>>
    ELSE LET sectionName == trim(OpenTagName(t, Head(ms).from))
         IN  IF sectionName \in processedSections
             THEN PushOncePerName(t, Tail(ms), processedSections, secs)
             ELSE <<ReplaceAllText(SubSeq(t, Head(ms).from, Head(ms).to),
                                   ReplacementContent(secs, 1))>>
                  \o PushOncePerName(t, Tail(ms),
                                     processedSections \cup {sectionName}, secs)

\* handleAssetSections over the text of the top-level paragraphs: one request
\* per name.
handleAssetSections(body, secs) ==
    LET text == extractTextFromDocumentSimple(body)
    IN  PushOncePerName(text, AssetSectionMatches(text, lastIndex + 1), {}, secs)

\* handleAssetSections over the full text: one request per match.
handleAssetSectionsFullText(body, secs) ==
    LET text == extractFullDocumentText(body)
        ms == AssetSectionMatches(text, lastIndex + 1)
    IN  [k \in 1..Len(ms) |->
            ReplaceAllText(SubSeq(text, ms[k].from, ms[k].to), FormattedContent(secs, 1))]

\* -------------------------------------------------- inputs of the text machine
O(n) == <<"{", "{">> \o KW \o n \o <<"}", "}">>
C(n) == <<"{", "{", "/">> \o KW \o n \o <<"}", "}">>
V(n) == <<"{", "{">> \o n \o <<"}", "}">>

\* The fragments template texts are put together from.
Pieces ==
    { O(<<"S">>), C(<<"S">>), C(<<"T">>),
      V(<<"x">>), V(<<"x", ":", "number">>), V(<<" ", "x", ":", "date", " ">>),
      V(<<"X">>), V(<<"y", ":", "q", ":", "date">>),
      <<"{", "{">>, <<"}", "}">>, <<"z">> }

Texts == {Concat(ps) : ps \in UNION {[1..n -> Pieces] : n \in 0..MaxPieces}}

\* The values the form gives: the k-th field is left empty or filled with a
\* value of its own.
FilledValue(k) == <<"v">> \o [j \in 1..k |-> "'"]


\* ---------------------------------------------- inputs of the other machines
\* Bounds of the documents and of the section data.
MaxElements == 2
MaxPairs == 2
MaxFields == 3
MaxIndex == 100

SectionNames == {<<"A">>, <<"B">>}

ParagraphPool ==
    { Marker(<<"A">>) \o <<NL>>,
      Marker(<<"B">>) \o <<NL>>,
      <<"x">> \o Marker(<<"A">>) \o Marker(<<"B">>) \o <<NL>>,
      <<"z", NL>> }

\* A table of one cell that holds a marker.
MarkerCellTable == <<TBL, ROW, CELL>> \o Marker(<<"A">>) \o <<NL, END>>

ElementPool == ParagraphPool \cup {EmptyTable(1, 1), MarkerCellTable}

\* The documents: a table is followed by a paragraph, and so the last element
\* is a paragraph.
Docs ==
    {Concat(es) : es \in
        {f \in UNION {[1..n -> ElementPool] : n \in 1..MaxElements} :
            \A k \in 1..Len(f) :
                f[k] \notin ParagraphPool => k < Len(f) /\ f[k + 1] \in ParagraphPool}}

Repeat(c, n) == [k \in 1..n |-> c]

MakeSection(title, n) ==
    [title |-> title,
     keyValuePairs |-> [k \in 1..n |-> [key |-> Repeat("k", k), value |-> Repeat("v", k)]],
     given |-> TRUE]

Titles == {<<>>, <<"T">>, <<"T", "i", "t", "l", "e", "s">>}

BlankSection ==
    [title |-> <<"T">>, keyValuePairs |-> <<[key |-> <<" ">>, value |-> <<"v">>]>>,
     given |-> TRUE]

SectionPool ==
    {NoSection, BlankSection} \cup {MakeSection(t, n) : t \in Titles, n \in 0..MaxPairs}

\* The `sections` argument: the data of the request body, per section name.
SectionMaps ==
    {[n \in SectionNames |-> IF n = <<"A">> THEN a ELSE b] :
        a \in SectionPool, b \in {NoSection, MakeSection(<<"T">>, 1)}}

\* The asset sections the layout is generated for: fields out of
\* alphabetical order, with an empty value among them.
FieldPool ==
    { [key |-> <<"b">>, value |-> <<"1">>],
      [key |-> <<"a">>, value |-> <<"2">>],
      [key |-> <<"c">>, value |-> <<>>] }

AssetSectionPool ==
    {[title |-> t, fields |-> fs] :
        t \in {<<>>, <<"T">>},
        fs \in UNION {[1..n -> FieldPool] : n \in 0..MaxFields}}

\* Synthetic cells: the first content element is a paragraph whose own
\* startIndex is p or missing, with or without a first paragraph element.
SyntheticTables ==
    {<< << [startIndex |-> 0,
            content |-> <<[startIndex |-> p, paragraph |-> TRUE, elements |-> els]>>] >> >> :
        p \in (0..MaxIndex) \cup {Undefined},
        els \in {<<>>, <<[startIndex |-> Undefined]>>, <<[startIndex |-> 7]>>}}

\* The templates of asset sections: field placeholders, plain, spaced and
\* repeated, with text between them.
MaxTemplatePieces == 3

TemplatePieces ==
    { V(<<"Tanah">>), V(<<"Bangunan">>), V(<<" ", "Tanah", " ">>),
      V(<<"Tanah", ":", "number">>), <<" ">> }

Templates ==
    {Concat(ps) : ps \in UNION {[1..n -> TemplatePieces] : n \in 0..MaxTemplatePieces}}

\* The documents with asset-section blocks: blocks of one name with different
\* bodies, a name written with a space, a block over three text runs, a
\* block in a table cell.
MaxBodyElements == 2
MaxSections == 2

Block(n, body) == O(n) \o body \o C(n)

BodyPool ==
    { Paragraph(<<Block(<<"S">>, <<"a">>)>>),
      Paragraph(<<Block(<<"S">>, <<"b">>)>>),
      Paragraph(<<Block(<<" ", "S">>, <<"a">>)>>),
      Paragraph(<<O(<<"T">>), <<"z">>, C(<<"T">>)>>),
      Table(<< << << <<Block(<<"S">>, <<"a">>)>> >> >> >>) }

Bodies == UNION {[1..n -> BodyPool] : n \in 1..MaxBodyElements}

\* The configured sections: keys shorter and longer than the minimum padding,
\* an empty value, a section without title, a section without fields.
ConfiguredPool ==
    { [title |-> <<"T">>,
       fields |-> << [key |-> Repeat("k", 1), value |-> <<"v">>],
                     [key |-> Repeat("k", 21), value |-> <<"w">>] >>],
      [title |-> <<>>,
       fields |-> << [key |-> Repeat("k", 26), value |-> <<>>],
                     [key |-> Repeat("k", 3), value |-> <<"v">>] >>],
      [title |-> <<"U">>, fields |-> <<>>] }

Configured == UNION {[1..n -> ConfiguredPool] : n \in 0..MaxSections}

\* The templates the form is shown for: up to MaxFormVariables variables, of
\* type text or email, and up to MaxFormSections asset sections.
MaxFormVariables == 2
MaxFormSections == 2

FormVariables == UNION {[1..n -> {"text", "email"}] : n \in 0..MaxFormVariables}

\* What a field holds: nothing, a text that is no email address, an address.
FieldValues == {"", "word", "a@b.c"}

\* ---------------------------------------------------------------- variables
VARIABLES
    \* the text machine
    content,        \* the text of the template document
    variables,      \* DocumentContent.variables
    assetSections,  \* DocumentContent.assetSections
    values,         \* the form's variable map, as Object.entries lists it
    requests,       \* the requests of replaceVariablesInDocument's batchUpdate
    output,         \* the text of the copy after the batch
    previewContent, \* the text DocumentPreview is given
    textPc,         \* "template", "form", "refetched", "preview", "generated" ("off")
    rescan,         \* what a second fetchDocumentContent returns for the same text
    \* replaceSectionVariables and createSectionTable
    doc,              \* the document in the store
    sections,         \* the sections argument
    pc,               \* where replaceSectionVariables stands
    sectionVariables, \* the markers found in the first fetch
    i,                \* the loop index
    inFlight,         \* the calls to the store that have not returned
    document,         \* the document createSectionTable fetched
    insertRequests,   \* createSectionTable's `requests`
    stylingRequests,  \* createSectionTable's `stylingRequests`
    \* generateAssetSectionTable
    assetSection,     \* its argument
    layout,           \* its result
    \* getCellIndex
    table,            \* the tableRows of its argument
    cellIndex,        \* its result
    \* parseTemplateFields
    template,         \* its argument
    fields,           \* its result
    fieldsPc,         \* "call", "return" ("off": machine not run)
    \* fetchDocumentContent and handleAssetSections on one document
    body,             \* doc.body.content
    assetSectionData, \* assetSectionData.sections
    detected,         \* the asset sections fetchDocumentContent reports
    assetRequests,    \* the `requests` handleAssetSections has pushed to
    assetPc,          \* "template", "form", "replaced", "replacedFullText" ("off")
    \* VariableForm in DocumentGenerator
    formVariables,     \* the types of the `variables` prop
    formAssetSections, \* assetSections.length
    formValues,        \* the `values` state, per variable
    errors,            \* the variables with an entry in the `errors` state
    activeTab,         \* "variables" or "assets"
    formSectionData,   \* assetSectionData.sections.length
    currentStep        \* DocumentGenerator's step; "mounting" before the effects ("off")

textVars == <<content, variables, assetSections, values, requests, output, textPc,
              rescan, previewContent>>
sectionVars == <<doc, sections, pc, sectionVariables, i, inFlight, document,
                 insertRequests, stylingRequests>>
layoutVars == <<assetSection, layout>>
cellVars == <<table, cellIndex>>
fieldsVars == <<template, fields, fieldsPc>>
assetVars == <<body, assetSectionData, detected, assetRequests, assetPc>>
formVars == <<formVariables, formAssetSections, formValues, errors, activeTab,
              formSectionData, currentStep>>
vars == <<textVars, sectionVars, layoutVars, cellVars, fieldsVars, assetVars, formVars>>

\* What the steps of one machine leave alone: the variables of the others.
notText == <<sectionVars, layoutVars, cellVars, fieldsVars, assetVars, formVars>>
notSection == <<textVars, layoutVars, cellVars, fieldsVars, assetVars, formVars>>
notLayout == <<textVars, sectionVars, cellVars, fieldsVars, assetVars, formVars>>
notCell == <<textVars, sectionVars, layoutVars, fieldsVars, assetVars, formVars>>
notFields == <<textVars, sectionVars, layoutVars, cellVars, assetVars, formVars>>
notAsset == <<textVars, sectionVars, layoutVars, cellVars, fieldsVars, formVars>>
notForm == <<textVars, sectionVars, layoutVars, cellVars, fieldsVars, assetVars>>

\* ---------------------------------------------------------- the text machine
TextOff ==
    /\ content = <<>> /\ variables = <<>> /\ assetSections = <<>> /\ values = <<>>
    /\ requests = <<>> /\ output = <<>> /\ textPc = "off" /\ rescan = <<>>
    /\ previewContent = <<>>

TextInit ==
    /\ content \in Texts
    /\ variables = <<>>
    /\ assetSections = <<>>
    /\ values = <<>>
    /\ requests = <<>>
    /\ output = <<>>
    /\ textPc = "template"
    /\ rescan = <<>>
    /\ previewContent = <<>>

\* fetchDocumentContent: the template's text is scanned by both parsers.
FetchDocumentContent ==
    /\ textPc = "template"
    /\ variables' = extractVariables(content)
    /\ assetSections' = parseAssetSections(content)
    /\ textPc' = "form"
    /\ UNCHANGED <<content, values, requests, output, rescan, previewContent>>
    /\ UNCHANGED notText

\* A second fetch whose scans start behind the first two characters, as with a
\* matcher that was used before.
FetchDocumentContentWithUsedMatcher ==
    /\ textPc = "form"
    /\ textPc' = "refetched"
    /\ LET stripped == StripAssetSections(content, 1)
           ms == AssetSectionMatches(content, 3)
       IN  rescan' =
              [variables |-> CollectVariables(stripped, VariableMatches(stripped, 3), {}),
               assetSections |->
                  [k \in 1..Len(ms) |-> [name |-> trim(OpenTagName(content, ms[k].from))]]]
    /\ UNCHANGED <<content, variables, assetSections, values, requests, output,
                   previewContent>>
    /\ UNCHANGED notText

\* fetchDocumentContent once more for the same document (the template is
\* selected again): both parsers run again, each with matchers of its own.
\* The form that follows is the form of the first fetch and is not gone
\* through a second time.
FetchDocumentContentAgain ==
    /\ textPc = "form"
    /\ rescan' = [variables |-> extractVariables(content),
                  assetSections |-> parseAssetSections(content)]
    /\ textPc' = "refetched"
    /\ UNCHANGED <<content, variables, assetSections, values, requests, output,
                   previewContent>>
    /\ UNCHANGED notText

\* The preview step: DocumentPreview is rendered with the text
\* replaceVariables makes of the template's text and the map of values, which
\* holds a value, or the empty string, for every variable.
ShowPreview ==
    /\ textPc = "form"
    /\ \E filled \in [1..Len(variables) -> BOOLEAN] :
          /\ values' = [k \in 1..Len(variables) |->
                            [key |-> variables[k].name,
                             value |-> IF filled[k] THEN FilledValue(k) ELSE <<>>]]
          /\ previewContent' = replaceVariables(content, values')
    /\ textPc' = "preview"
    /\ UNCHANGED <<content, variables, assetSections, requests, output, rescan>>
    /\ UNCHANGED notText

\* createFormattedDocument with the values of the form: the template is
\* copied and the copy is rewritten by one batch of replaceAllText requests.
CreateFormattedDocument ==
    /\ textPc = "preview"
    /\ requests' = replaceVariablesInDocument(values)
    /\ output' = ApplyRequests(content, requests')
    /\ textPc' = "generated"
    /\ UNCHANGED <<content, variables, assetSections, values, rescan, previewContent>>
    /\ UNCHANGED notText

TextNext ==
    \/ FetchDocumentContent \/ FetchDocumentContentAgain \/ ShowPreview
    \/ CreateFormattedDocument

\* --------------------------------------------------- replaceSectionVariables
\* A call to the store that has not returned yet.
Get == [kind |-> "get", requests |-> <<>>]
BatchUpdateCall(rs) == [kind |-> "batchUpdate", requests |-> rs]

SectionOff ==
    /\ doc = <<>> /\ sections = <<>> /\ pc = "off" /\ sectionVariables = <<>>
    /\ i = 0 /\ inFlight = <<>> /\ document = <<>>
    /\ insertRequests = <<>> /\ stylingRequests = <<>>

SectionInit ==
    /\ doc \in Docs
    /\ sections \in SectionMaps
    /\ pc = "start"
    /\ sectionVariables = <<>>
    /\ i = 0
    /\ inFlight = <<>>
    /\ document = <<>>
    /\ insertRequests = <<>>
    /\ stylingRequests = <<>>

\* The marker of the current iteration and the entry of `sections` under its
\* name; `given` is FALSE when the map has no such entry.
sectionVar == sectionVariables[i]
section == sections[sectionVar.name]

\* `await docs.documents.get(...)`: the call goes out.
Start ==
    /\ pc = "start"
    /\ inFlight' = Append(inFlight, Get)
    /\ pc' = "get_wait"
    /\ UNCHANGED <<doc, sections, sectionVariables, i, document, insertRequests,
                   stylingRequests>>
    /\ UNCHANGED notSection

\* The document arrives; its top-level paragraphs are scanned for markers and
\* the loop starts at the last one.
GetDone ==
    /\ pc = "get_wait"
    /\ inFlight # <<>>
    /\ inFlight' = Tail(inFlight)
    /\ sectionVariables' = SectionVariablesOf(doc)
    /\ i' = Len(sectionVariables')
    /\ pc' = "loop"
    /\ UNCHANGED <<doc, sections, document, insertRequests, stylingRequests>>
    /\ UNCHANGED notSection

\* A loop that throws at a marker with no entry in `sections`.
ThrowOnUnknown ==
    /\ pc = "loop"
    /\ i >= 1
    /\ ~section.given
    /\ pc' = "failed"
    /\ UNCHANGED <<doc, sections, sectionVariables, i, inFlight, document,
                   insertRequests, stylingRequests>>
    /\ UNCHANGED notSection

\* `if (section) ... else console.warn(...)`: no entry under the marker's name.
SkipUnknown ==
    /\ pc = "loop"
    /\ i >= 1
    /\ ~section.given
    /\ i' = i - 1
    /\ UNCHANGED <<doc, sections, pc, sectionVariables, inFlight, document,
                   insertRequests, stylingRequests>>
    /\ UNCHANGED notSection

\* "Skipping section ... no valid content": `continue`.
SkipInvalid ==
    /\ pc = "loop"
    /\ i >= 1
    /\ section.given
    /\ SkipsSection(section)
    /\ i' = i - 1
    /\ UNCHANGED <<doc, sections, pc, sectionVariables, inFlight, document,
                   insertRequests, stylingRequests>>
    /\ UNCHANGED notSection

\* The batch that deletes the marker's text goes out.
IssueDelete ==
    /\ pc = "loop"
    /\ i >= 1
    /\ section.given
    /\ ~SkipsSection(section)
    /\ inFlight' = Append(inFlight,
            BatchUpdateCall(<<DeleteContentRange(sectionVar.startIndex,
                                                 sectionVar.endIndex)>>))
    /\ pc' = "delete_wait"
    /\ UNCHANGED <<doc, sections, sectionVariables, i, document, insertRequests,
                   stylingRequests>>
    /\ UNCHANGED notSection

\* The answer of the store to the batch in flight: applied, or rejected whole.
Answer(next) ==
    /\ inFlight # <<>>
    /\ LET result == BatchUpdate(doc, Head(inFlight).requests)
       IN  /\ doc' = result.doc
           /\ pc' = IF result.ok THEN next ELSE "failed"
    /\ inFlight' = Tail(inFlight)

DeleteDone ==
    /\ pc = "delete_wait"
    /\ Answer("create")
    /\ UNCHANGED <<sections, sectionVariables, i, document, insertRequests,
                   stylingRequests>>
    /\ UNCHANGED notSection

\* createSectionTable(docs, documentId, section, variable.startIndex): the
\* first batch, the insertTable request, goes out.
IssueInsertTable ==
    /\ pc = "create"
    /\ insertRequests' = TableRequests(section, sectionVar.startIndex)
    /\ inFlight' = Append(inFlight, BatchUpdateCall(insertRequests'))
    /\ pc' = "insert_wait"
    /\ UNCHANGED <<doc, sections, sectionVariables, i, document, stylingRequests>>
    /\ UNCHANGED notSection

InsertTableDone ==
    /\ pc = "insert_wait"
    /\ Answer("fetch")
    /\ UNCHANGED <<sections, sectionVariables, i, document, insertRequests,
                   stylingRequests>>
    /\ UNCHANGED notSection

\* A fetch that does not wait for the answer to the insertTable batch.
IssueFetchUnawaited ==
    /\ pc = "insert_wait"
    /\ inFlight' = Append(inFlight, Get)
    /\ pc' = "fetch_wait"
    /\ UNCHANGED <<doc, sections, sectionVariables, i, document, insertRequests,
                   stylingRequests>>
    /\ UNCHANGED notSection

\* "Get updated document to find the table".
IssueFetch ==
    /\ pc = "fetch"
    /\ inFlight' = Append(inFlight, Get)
    /\ pc' = "fetch_wait"
    /\ UNCHANGED <<doc, sections, sectionVariables, i, document, insertRequests,
                   stylingRequests>>
    /\ UNCHANGED notSection

\* The fetched document is searched for the table and the second batch is
\* built from the indices of its cells; a missing table or cell throws.
FetchDone ==
    /\ pc = "fetch_wait"
    /\ inFlight # <<>>
    /\ inFlight' = Tail(inFlight)
    /\ document' = doc
    /\ IF StylingThrows(document', sectionVar.startIndex, section)
       THEN /\ pc' = "failed"
            /\ UNCHANGED stylingRequests
       ELSE LET el == findTableElementAtIndex(document', sectionVar.startIndex)
            IN  /\ stylingRequests' =
                       StylingRequests(TableRows(document', el), el.startIndex, section)
                /\ pc' = "styling"
    /\ UNCHANGED <<doc, sections, sectionVariables, i, insertRequests>>
    /\ UNCHANGED notSection

\* `return docs.documents.batchUpdate(... stylingRequests ...)`.
IssueStyling ==
    /\ pc = "styling"
    /\ inFlight' = Append(inFlight, BatchUpdateCall(stylingRequests))
    /\ pc' = "styling_wait"
    /\ UNCHANGED <<doc, sections, sectionVariables, i, document, insertRequests,
                   stylingRequests>>
    /\ UNCHANGED notSection

\* The caller's await returns, createSectionTable's locals are gone, and the
\* loop goes on with the marker before.
StylingDone ==
    /\ pc = "styling_wait"
    /\ Answer("loop")
    /\ IF pc' = "loop"
       THEN /\ i' = i - 1
            /\ document' = <<>>
            /\ insertRequests' = <<>>
            /\ stylingRequests' = <<>>
       ELSE UNCHANGED <<i, document, insertRequests, stylingRequests>>
    /\ UNCHANGED <<sections, sectionVariables>>
    /\ UNCHANGED notSection

\* The loop has run through all markers.
Finish ==
    /\ pc = "loop"
    /\ i = 0
    /\ pc' = "done"
    /\ UNCHANGED <<doc, sections, sectionVariables, i, inFlight, document,
                   insertRequests, stylingRequests>>
    /\ UNCHANGED notSection

\* A failure that is swallowed: the loop goes on with the marker before.
RequestFailsAndGoesOn ==
    /\ inFlight # <<>>
    /\ inFlight' = Tail(inFlight)
    /\ pc' = "loop"
    /\ i' = IF i >= 1 THEN i - 1 ELSE i
    /\ UNCHANGED <<doc, sections, sectionVariables, document, insertRequests,
                   stylingRequests>>
    /\ UNCHANGED notSection

\* A call to the store fails (network, permission): the await throws, and
\* the error leaves replaceSectionVariables.
RequestFails ==
    /\ inFlight # <<>>
    /\ inFlight' = Tail(inFlight)
    /\ pc' = "failed"
    /\ UNCHANGED <<doc, sections, sectionVariables, i, document, insertRequests,
                   stylingRequests>>
    /\ UNCHANGED notSection

SectionNext ==
    \/ Start \/ GetDone \/ SkipUnknown \/ SkipInvalid \/ IssueDelete \/ DeleteDone
    \/ IssueInsertTable \/ InsertTableDone \/ IssueFetch \/ FetchDone
    \/ IssueStyling \/ StylingDone \/ Finish \/ RequestFails

\* ------------------------------------------------- the layout of one section
LayoutOff == assetSection = <<>> /\ layout = <<>>

LayoutInit ==
    /\ assetSection \in AssetSectionPool
    /\ layout = <<>>

GenerateAssetSectionTable ==
    /\ layout = <<>>
    /\ layout' = generateAssetSectionTable(assetSection)
    /\ UNCHANGED assetSection
    /\ UNCHANGED notLayout

LayoutNext == GenerateAssetSectionTable

\* ------------------------------------------------------- one synthetic cell
CellOff == table = <<>> /\ cellIndex = <<>>

CellInit ==
    /\ table \in SyntheticTables
    /\ cellIndex = <<>>

GetCellIndex ==
    /\ cellIndex = <<>>
    /\ cellIndex' = getCellIndex(table, 0, 0)
    /\ UNCHANGED table
    /\ UNCHANGED notCell

CellNext == GetCellIndex

\* ------------------------------------------- the fields of one template
FieldsOff == template = <<>> /\ fields = <<>> /\ fieldsPc = "off"

FieldsInit ==
    /\ template \in Templates
    /\ fields = <<>>
    /\ fieldsPc = "call"

ParseTemplateFields ==
    /\ fieldsPc = "call"
    /\ fields' = parseTemplateFields(template)
    /\ fieldsPc' = "return"
    /\ UNCHANGED template
    /\ UNCHANGED notFields

FieldsNext == ParseTemplateFields

\* ------------------------------------- the asset sections of one document
AssetOff ==
    /\ body = <<>> /\ assetSectionData = <<>> /\ detected = <<>>
    /\ assetRequests = <<>> /\ assetPc = "off"

AssetInit ==
    /\ body \in Bodies
    /\ assetSectionData \in Configured
    /\ detected = <<>>
    /\ assetRequests = <<>>
    /\ assetPc = "template"

\* fetchDocumentContent: the asset sections of the extracted text.
FetchAssetSections ==
    /\ assetPc = "template"
    /\ detected' = parseAssetSections(extractTextFromDocument(body))
    /\ assetPc' = "form"
    /\ UNCHANGED <<body, assetSectionData, assetRequests>>
    /\ UNCHANGED notAsset

\* replaceVariablesInDocument with an empty map of variables: the requests
\* are those of handleAssetSections, which is called when a section is
\* configured.
ReplaceAssetSections ==
    /\ assetPc = "form"
    /\ assetRequests' =
          IF Len(assetSectionData) > 0
          THEN handleAssetSections(body, assetSectionData) ELSE <<>>
    /\ assetPc' = "replaced"
    /\ UNCHANGED <<body, assetSectionData, detected>>
    /\ UNCHANGED notAsset

\* The same with the handleAssetSections that scans the full text.
ReplaceAssetSectionsFullText ==
    /\ assetPc = "form"
    /\ assetRequests' =
          IF Len(assetSectionData) > 0
          THEN handleAssetSectionsFullText(body, assetSectionData) ELSE <<>>
    /\ assetPc' = "replacedFullText"
    /\ UNCHANGED <<body, assetSectionData, detected>>
    /\ UNCHANGED notAsset

AssetNext == FetchAssetSections \/ ReplaceAssetSections \/ ReplaceAssetSectionsFullText

\* -------------------------------------------------------------- VariableForm
FormOff ==
    /\ formVariables = <<>> /\ formAssetSections = 0 /\ formValues = <<>>
    /\ errors = {} /\ activeTab = "variables" /\ formSectionData = 0
    /\ currentStep = "off"

\* useState: the initial state of the component, before its effects have run.
FormInit ==
    /\ formVariables \in FormVariables
    /\ formAssetSections \in 0..MaxFormSections
    /\ formValues = <<>>
    /\ errors = {}
    /\ activeTab = "variables"
    /\ formSectionData = 0
    /\ currentStep = "mounting"

hasAssetSections == formAssetSections > 0
hasVariables == Len(formVariables) > 0

\* What the component renders in the form step: with no variable the function
\* returns the "No Variables Found" notice before it comes to the form.
Rendered ==
    IF currentStep # "form"
    THEN [notice |-> FALSE, form |-> FALSE, tabs |-> FALSE, variablesTab |-> FALSE,
          assetManager |-> FALSE]
    ELSE IF Len(formVariables) = 0
    THEN [notice |-> TRUE, form |-> FALSE, tabs |-> FALSE, variablesTab |-> FALSE,
          assetManager |-> FALSE]
    ELSE [notice |-> FALSE, form |-> TRUE,
          tabs |-> hasAssetSections /\ hasVariables,
          variablesTab |-> (activeTab = "variables" \/ ~hasAssetSections) /\ hasVariables,
          assetManager |-> (activeTab = "assets" \/ ~hasVariables) /\ hasAssetSections]

\* The two effects of the first render: every variable gets the empty value,
\* and with an asset section in the template the data starts with one default
\* section and the tab of the assets.
Mount ==
    /\ currentStep = "mounting"
    /\ formValues' = [k \in 1..Len(formVariables) |-> ""]
    /\ IF formAssetSections > 0
       THEN formSectionData' = 1 /\ activeTab' = "assets"
       ELSE UNCHANGED <<formSectionData, activeTab>>
    /\ currentStep' = "form"
    /\ UNCHANGED <<formVariables, formAssetSections, errors>>
    /\ UNCHANGED notForm

\* A click on one of the two tabs.
SetActiveTab ==
    /\ Rendered.tabs
    /\ \E tab \in {"variables", "assets"} : activeTab' = tab
    /\ UNCHANGED <<formVariables, formAssetSections, formValues, errors,
                   formSectionData, currentStep>>
    /\ UNCHANGED notForm

\* handleValueChange: the field's value is set and its error cleared.
HandleValueChange ==
    /\ Rendered.variablesTab
    /\ \E k \in 1..Len(formVariables), value \in FieldValues :
          /\ formValues' = [formValues EXCEPT ![k] = value]
          /\ errors' = errors \ {k}
    /\ UNCHANGED <<formVariables, formAssetSections, activeTab, formSectionData,
                   currentStep>>
    /\ UNCHANGED notForm

\* handleAssetSectionChange: the AssetManager reports edited data.
HandleAssetSectionChange ==
    /\ Rendered.assetManager
    /\ \E n \in 0..MaxFormSections : formSectionData' = n
    /\ UNCHANGED <<formVariables, formAssetSections, formValues, errors, activeTab,
                   currentStep>>
    /\ UNCHANGED notForm

\* validateForm: the variables whose value is empty or does not fit the type.
NewErrors ==
    {k \in 1..Len(formVariables) :
        \/ formValues[k] = ""
        \/ formVariables[k] = "email" /\ formValues[k] # "a@b.c"}

\* handleSubmit: onSubmit is called when validateForm finds no error.
HandleSubmit ==
    /\ Rendered.form
    /\ errors' = NewErrors
    /\ currentStep' = IF NewErrors = {} THEN "preview" ELSE currentStep
    /\ UNCHANGED <<formVariables, formAssetSections, formValues, activeTab,
                   formSectionData>>
    /\ UNCHANGED notForm

\* "Continue Anyway" of the notice: onSubmit.
ContinueAnyway ==
    /\ Rendered.notice
    /\ currentStep' = "preview"
    /\ UNCHANGED <<formVariables, formAssetSections, formValues, errors, activeTab,
                   formSectionData>>
    /\ UNCHANGED notForm

\* "Back to Templates", of the notice and of the form: onBack.
Back ==
    /\ Rendered.notice \/ Rendered.form
    /\ currentStep' = "template"
    /\ UNCHANGED <<formVariables, formAssetSections, formValues, errors, activeTab,
                   formSectionData>>
    /\ UNCHANGED notForm

FormNext ==
    \/ Mount \/ SetActiveTab \/ HandleValueChange \/ HandleAssetSectionChange
    \/ HandleSubmit \/ ContinueAnyway \/ Back

\* ----------------------------------------------------------- specifications
Init ==
    TextOff /\ SectionInit /\ LayoutOff /\ CellOff /\ FieldsOff /\ AssetOff /\ FormOff
Next == SectionNext
Spec == Init /\ [][Next]_vars

InitText ==
    TextInit /\ SectionOff /\ LayoutOff /\ CellOff /\ FieldsOff /\ AssetOff /\ FormOff
SpecText == InitText /\ [][TextNext]_vars

InitLayout ==
    TextOff /\ SectionOff /\ LayoutInit /\ CellOff /\ FieldsOff /\ AssetOff /\ FormOff
SpecLayout == InitLayout /\ [][LayoutNext]_vars

InitCell ==
    TextOff /\ SectionOff /\ LayoutOff /\ CellInit /\ FieldsOff /\ AssetOff /\ FormOff
SpecCell == InitCell /\ [][CellNext]_vars

InitFields ==
    TextOff /\ SectionOff /\ LayoutOff /\ CellOff /\ FieldsInit /\ AssetOff /\ FormOff
SpecFields == InitFields /\ [][FieldsNext]_vars

InitAsset ==
    TextOff /\ SectionOff /\ LayoutOff /\ CellOff /\ FieldsOff /\ AssetInit /\ FormOff
SpecAsset == InitAsset /\ [][AssetNext]_vars

\* The effects of a mounted component run; what the user does is up to the user.
InitForm ==
    TextOff /\ SectionOff /\ LayoutOff /\ CellOff /\ FieldsOff /\ AssetOff /\ FormInit
SpecForm == InitForm /\ [][FormNext]_vars /\ WF_vars(Mount)

\* ------------------------------------------------ properties of the parsers
\* s contains p as a contiguous piece.
Contains(s, p) == \E at \in 1..(Len(s) + 1) : IsPrefixAt(s, at, p)

Names(vs) == {vs[k].name : k \in 1..Len(vs)}

\* Every asset-section tag of a text, left to right.
RECURSIVE Tags(_, _)
Tags(t, at) ==
    IF at > Len(t) THEN <<>>
    ELSE IF OpenTagAt(t, at)
         THEN <<[kind |-> "open", name |-> OpenTagName(t, at), from |-> at,
                 to |-> OpenTagEnd(t, at) - 1]>> \o Tags(t, OpenTagEnd(t, at))
    ELSE IF CloseTagAt(t, at)
         THEN <<[kind |-> "close", name |-> CloseTagName(t, at), from |-> at,
                 to |-> CloseTagEnd(t, at) - 1]>> \o Tags(t, CloseTagEnd(t, at))
    ELSE Tags(t, at + 1)

\* A text is well-formed when its tags pair up: an opening tag, then the closing
\* tag of the same name, then the next pair.
WellFormed(t) ==
    LET tags == Tags(t, 1)
    IN  /\ Len(tags) % 2 = 0
        /\ \A k \in 1..Len(tags) :
              IF k % 2 = 1
              THEN tags[k].kind = "open" /\ tags[k + 1].kind = "close"
                   /\ tags[k + 1].name = tags[k].name
              ELSE TRUE

\* The blocks of a well-formed text: name and the range of the body.
BlocksOf(t) ==
    LET tags == Tags(t, 1)
    IN  {[name |-> tags[k].name, bodyFrom |-> tags[k].to + 1,
          bodyTo |-> tags[k + 1].from - 1] : k \in {j \in 1..Len(tags) : j % 2 = 1}}

\* The placeholders of a text, wherever they start: {{...}} that is no
\* asset-section tag, with the name it resolves to.
PlaceholdersOf(t) ==
    {[from |-> s, to |-> RunEnd(t, s + 2) + 1,
      name |-> VariableOf(t, [from |-> s, to |-> RunEnd(t, s + 2) + 1]).name] :
        s \in {r \in 1..Len(t) :
                 /\ VariableMatchAt(t, r)
                 /\ ~VariableOf(t, [from |-> r, to |-> RunEnd(t, r + 2) + 1]).skip}}

InsideBlock(ph, b) == b.bodyFrom <= ph.from /\ ph.to <= b.bodyTo

\* The names all of whose placeholders lie inside blocks.
OnlyInsideBlocks(t) ==
    {n \in {ph.name : ph \in PlaceholdersOf(t)} :
        \A ph \in PlaceholdersOf(t) :
            ph.name = n => \E b \in BlocksOf(t) : InsideBlock(ph, b)}

\* C1: in a well-formed text, a name whose placeholders all lie inside
\* asset-section blocks is no variable of extractVariables, and each such
\* placeholder is part of the template of a block of that name returned by
\* parseAssetSections.
C1_NestedVariablesStayInBlock ==
    (textPc = "form" /\ WellFormed(content)) =>
        \A n \in OnlyInsideBlocks(content) :
            /\ n \notin Names(variables)
            /\ \A ph \in PlaceholdersOf(content) :
                  ph.name = n =>
                      \E b \in BlocksOf(content) :
                          /\ InsideBlock(ph, b)
                          /\ \E k \in 1..Len(assetSections) :
                                /\ assetSections[k].name = trim(b.name)
                                /\ Contains(assetSections[k].template,
                                            SubSeq(content, ph.from, ph.to))

C1_Witness ==
    /\ textPc = "form"
    /\ WellFormed(content)
    /\ <<"x">> \in OnlyInsideBlocks(content)
    /\ Len(assetSections) = 1
    /\ assetSections[1].name = <<"S">>
    /\ assetSections[1].template = V(<<"x">>)

\* The placeholders the loop of extractVariables visits and does not skip.
Occurrences(t) ==
    LET stripped == StripAssetSections(t, 1)
        ms == VariableMatches(stripped, 1)
        RECURSIVE Kept(_)
        Kept(rest) ==
            IF rest = <<>> THEN <<>>
            ELSE IF VariableOf(stripped, Head(rest)).skip THEN Kept(Tail(rest))
                 ELSE <<VariableOf(stripped, Head(rest))>> \o Kept(Tail(rest))
    IN  Kept(ms)

FirstOccurrence(occ, n) == Min({k \in 1..Len(occ) : occ[k].name = n})

\* C2: one variable per distinct name, in the order of the first occurrences,
\* each with the placeholder and the type of its first occurrence.
C2_FirstOccurrenceWins ==
    textPc = "form" =>
        LET occ == Occurrences(content)
        IN  /\ \A at, j \in 1..Len(variables) :
                  at # j => variables[at].name # variables[j].name
            /\ Names(variables) = {occ[k].name : k \in 1..Len(occ)}
            /\ \A at \in 1..Len(variables) :
                  LET f == FirstOccurrence(occ, variables[at].name)
                  IN  /\ variables[at].placeholder = occ[f].placeholder
                      /\ variables[at].type = occ[f].type
            /\ \A at, j \in 1..Len(variables) :
                  at < j => FirstOccurrence(occ, variables[at].name)
                             < FirstOccurrence(occ, variables[j].name)
            /\ content = V(<<"x">>) \o V(<<"x", ":", "number">>) =>
                  variables = <<[name |-> <<"x">>, placeholder |-> V(<<"x">>),
                                 type |-> <<"text">>]>>

C2_Witness ==
    /\ textPc = "form"
    /\ content = V(<<"x">>) \o V(<<"x", ":", "number">>)
    /\ Len(variables) = 1

\* The names that are words: letters only.
Letters == {"x", "X", "y", "z", "S", "T"}
IsWord(n) == n # <<>> /\ \A k \in 1..Len(n) : n[k] \in Letters

\* C3 (as stated): once the requests are applied, no placeholder that
\* extractVariables resolves to a variable with a non-empty value is left in
\* the text.
C3_NoPlaceholderLeft ==
    textPc = "generated" =>
        \A k \in 1..Len(values) :
            (values[k].value # <<>> /\ IsWord(values[k].key)) =>
                \A ph \in PlaceholdersOf(output) : ph.name # values[k].key

IsTag(p) ==
    \/ OpenTagAt(p, 1) /\ OpenTagEnd(p, 1) = Len(p) + 1
    \/ CloseTagAt(p, 1) /\ CloseTagEnd(p, 1) = Len(p) + 1

\* The opening tags with no closing tag of the same name after them.
Unclosed(t) ==
    {s \in 1..Len(t) :
        /\ OpenTagAt(t, s)
        /\ ~\E q \in OpenTagEnd(t, s)..Len(t) :
              CloseTagAt(t, q) /\ CloseTagName(t, q) = OpenTagName(t, s)}

\* C9: an opening tag with no closing tag of its name starts no block of
\* parseAssetSections, and no variable of extractVariables is a tag.
C9_MalformedTagsArePlainText ==
    textPc = "form" =>
        /\ \A s \in Unclosed(content) :
              \A k \in 1..Len(assetSections) :
                  ~IsPrefixAt(content, s, assetSections[k].placeholder)
        /\ \A k \in 1..Len(variables) : ~IsTag(variables[k].placeholder)

C9_Witness ==
    /\ textPc = "form"
    /\ content = O(<<"S">>) \o V(<<"x">>) \o C(<<"T">>)
    /\ Unclosed(content) = {1}
    /\ assetSections = <<>>

\* ------------------------------------------- properties of the section tables
RECURSIVE TextLength(_)
TextLength(rs) == IF rs = <<>> THEN 0 ELSE Len(Head(rs).text) + TextLength(Tail(rs))

IsInsertText(r) == r.op = "insertText"

\* The insertText requests of the second batch, in the order of the batch.
Inserts == SelectSeq(stylingRequests, IsInsertText)

\* The index the code computes for "inside the cell" from the fetched document.
Anchor(cell) ==
    LET el == findTableElementAtIndex(document, sectionVar.startIndex)
    IN  getCellIndex(TableRows(document, el), cell[1], cell[2]).index + 1

Building == pc \in {"styling", "styling_wait"}

\* C4 (as stated): in the second batch of createSectionTable every insertText
\* after the first has its index moved by the length of the text the earlier
\* insertText requests of the batch have put in before it.
C4_InsertsAccountForEarlierInserts ==
    Building =>
        \A j \in 2..Len(Inserts) :
            Inserts[j].index =
                Anchor(Inserts[j].cell) + TextLength(SubSeq(Inserts, 1, j - 1))

\* A request without the indices it is sent with.
Shape(r) == [r EXCEPT !.index = 0, !.endIndex = 0]

RECURSIVE ExpectedPairs(_, _)
ExpectedPairs(pairs, k) ==
    IF k > Len(pairs) THEN <<>>
    ELSE << InsertText(pairs[k].key, 0, <<k, 0>>),
            UpdateTextStyle(0, 0, TRUE, 12, <<k, 0>>),
            InsertText(pairs[k].value, 0, <<k, 1>>),
            UpdateTextStyle(0, 0, FALSE, 12, <<k, 1>>) >>
         \o ExpectedPairs(pairs, k + 1)

ExpectedOperations(sec, insertionPoint) ==
    << InsertTable(1 + Len(sec.keyValuePairs), 2, insertionPoint),
       MergeTableCells(0, 0, 0, 1, 2),
       InsertText(sec.title, 0, <<0, 0>>),
       UpdateTextStyle(0, 0, TRUE, 14, <<0, 0>>),
       UpdateParagraphStyle(0, 0, "CENTER", <<0, 0>>) >>
    \o ExpectedPairs(sec.keyValuePairs, 1)

\* C5: the operations of createSectionTable, first batch then second, are the
\* insertTable with 1 + N rows and 2 columns at the insertion point, the merge
\* of row 0, the title's text, its bold 14pt style, its centering, and then per
\* pair in the given order the key into column 0, bold 12pt, the value into
\* column 1, regular 12pt; the first batch is sent before the second is built.
C5_OperationsInOrder ==
    /\ pc = "insert_wait" =>
          /\ Head(inFlight).requests = insertRequests
          /\ stylingRequests = <<>>
    /\ pc = "styling_wait" => Head(inFlight).requests = stylingRequests
    /\ Building =>
          LET emitted == insertRequests \o stylingRequests
          IN  /\ Head(emitted) = Head(ExpectedOperations(section, sectionVar.startIndex))
              /\ [k \in 1..Len(emitted) |-> Shape(emitted[k])]
                    = [k \in 1..Len(emitted) |->
                          Shape(ExpectedOperations(section, sectionVar.startIndex)[k])]
              /\ Len(emitted) = 5 + 4 * Len(section.keyValuePairs)

C5_Witness ==
    /\ pc = "styling_wait"
    /\ Len(section.keyValuePairs) = 2
    /\ Len(stylingRequests) = 12

\* C8: at a marker whose name has no entry in `sections` the next step sends
\* nothing to the store, leaves the document as it is with the marker's text
\* in place, raises nothing, and goes on to the marker before it.
C8_UnknownMarkerIsSkipped ==
    [][(pc = "loop" /\ i >= 1 /\ ~section.given) =>
          /\ doc' = doc
          /\ SubSeq(doc', sectionVar.startIndex, sectionVar.endIndex - 1)
                = Marker(sectionVar.name)
          /\ inFlight' = <<>>
          /\ pc' = "loop"
          /\ i' = i - 1]_vars

\* A marker without entry was passed over and the one before it is replaced.
C8_Witness ==
    /\ pc = "styling_wait"
    /\ i < Len(sectionVariables)
    /\ ~sections[sectionVariables[Len(sectionVariables)].name].given

\* C10: at most one call to the store is under way, and only while
\* replaceSectionVariables waits for it.
C10_OneCallAtATime ==
    /\ Len(inFlight) <= 1
    /\ inFlight # <<>> =>
          pc \in {"get_wait", "delete_wait", "insert_wait", "fetch_wait", "styling_wait"}
    /\ pc \in {"delete_wait", "insert_wait", "styling_wait"} =>
          inFlight # <<>> /\ Head(inFlight).kind = "batchUpdate"

\* The second batch of a call is under way after the first batch and the
\* fetch have been answered.
C10_Witness ==
    /\ pc = "styling_wait"
    /\ Len(inFlight) = 1
    /\ document = doc
    /\ \E k \in 1..Len(doc) : doc[k] = TBL

\* ---------------------------------------------------- properties of one cell
firstParagraph == table[1][1].content[1]

\* C6: for a cell whose first content element is a paragraph with native start
\* index p, getCellIndex returns p + 1.
C6_StartIndexPlusOne ==
    (cellIndex # <<>> /\ firstParagraph.startIndex # Undefined) =>
        /\ cellIndex = Returned(firstParagraph.startIndex + 1)
        /\ cellIndex.index # firstParagraph.startIndex
        /\ firstParagraph.startIndex = 100 => cellIndex.index = 101

C6_Witness ==
    /\ cellIndex # <<>>
    /\ firstParagraph.startIndex = 100
    /\ cellIndex.index = 101

\* -------------------------------------------------- properties of the layout
rowsOf(l) == l.tableRows
titleRows == IF assetSection.title # <<>> THEN 1 ELSE 0

\* What C7 says of everything but the text of the value cells.
LayoutShape ==
    /\ layout.columns = 2
    /\ Len(rowsOf(layout)) = Len(assetSection.fields) + titleRows
    /\ assetSection.title # <<>> =>
          /\ Len(rowsOf(layout)[1]) = 1
          /\ rowsOf(layout)[1][1].columnSpan = 2
          /\ rowsOf(layout)[1][1].content = assetSection.title
    /\ \A k \in 1..Len(assetSection.fields) :
          LET row == rowsOf(layout)[k + titleRows]
          IN  /\ Len(row) = 2
              /\ row[1].content = assetSection.fields[k].key
              /\ row[1].bold
              /\ ~row[2].bold

\* C7 (as stated): the second cell of a field's row holds the field's value.
C7_ValueInSecondColumn ==
    layout # <<>> =>
        /\ LayoutShape
        /\ \A k \in 1..Len(assetSection.fields) :
              rowsOf(layout)[k + titleRows][2].content = assetSection.fields[k].value

\* C7 (amended): two columns; one row per field, after a title row when the
\* title is not empty; the title row is one cell spanning both columns; a
\* field's row holds the key, bold, and then ": " followed by the value, not
\* bold; the rows are in the order of the fields.
C7_ColonAndValueInSecondColumn ==
    layout # <<>> =>
        /\ LayoutShape
        /\ \A k \in 1..Len(assetSection.fields) :
              rowsOf(layout)[k + titleRows][2].content
                  = <<":", " ">> \o assetSection.fields[k].value

\* A titled section with its fields out of alphabetical order.
C7_Witness ==
    /\ layout # <<>>
    /\ assetSection.title = <<"T">>
    /\ Len(assetSection.fields) = 2
    /\ assetSection.fields[1].key = <<"b">>
    /\ assetSection.fields[2].key = <<"a">>
    /\ Len(layout.tableRows) = 3

\* ------------------------------------------------ properties of the failures
\* C11: once a call has failed nothing more happens, and a call in flight
\* ends in one of two ways: it is answered (a batch is applied whole, a fetch
\* changes nothing), or it fails, and then the error leaves
\* replaceSectionVariables with the document as the earlier batches left it.
C11_FailurePropagates ==
    [][/\ pc # "failed"
       /\ inFlight # <<>> =>
             \/ /\ pc' = "failed"
                /\ doc' = doc
                /\ inFlight' = <<>>
             \/ /\ Head(inFlight).kind = "batchUpdate"
                /\ BatchUpdate(doc, Head(inFlight).requests).ok
                /\ doc' = BatchUpdate(doc, Head(inFlight).requests).doc
                /\ pc' # "failed"
             \/ /\ Head(inFlight).kind = "get"
                /\ doc' = doc
                /\ pc' \in {"loop", "styling"}]_vars

\* The last marker was replaced by a table, and a call for the marker before
\* it has failed.
C11_Witness ==
    /\ pc = "failed"
    /\ inFlight = <<>>
    /\ Len(sectionVariables) = 2
    /\ i = 1
    /\ sections[sectionVariables[2].name].given
    /\ ~SkipsSection(sections[sectionVariables[2].name])
    /\ \E k \in 1..Len(doc) : doc[k] = TBL

FieldOccurrences(t) ==
    LET ms == VariableMatches(t, 1)
    IN  [k \in 1..Len(ms) |-> trim(SubSeq(t, ms[k].from + 2, ms[k].to - 2))]

FirstField(occ, n) == Min({k \in 1..Len(occ) : occ[k] = n})

\* C13: parseTemplateFields returns each field name of the template once, in
\* the order in which the names first occur; {{Tanah}} {{Bangunan}} gives
\* Tanah, Bangunan.
C13_FieldNamesOnceInOrder ==
    fieldsPc = "return" =>
        LET occ == FieldOccurrences(template)
        IN  /\ \A at, j \in 1..Len(fields) : at # j => fields[at] # fields[j]
            /\ {fields[k] : k \in 1..Len(fields)} = {occ[k] : k \in 1..Len(occ)}
            /\ \A at, j \in 1..Len(fields) :
                  at < j => FirstField(occ, fields[at]) < FirstField(occ, fields[j])
            /\ template = V(<<"Tanah">>) \o <<" ">> \o V(<<"Bangunan">>) =>
                  fields = << <<"Tanah">>, <<"Bangunan">> >>

\* A name that repeats, with another name between its two occurrences.
C13_Witness ==
    /\ fieldsPc = "return"
    /\ template = V(<<"Tanah">>) \o V(<<"Bangunan">>) \o V(<<" ", "Tanah", " ">>)
    /\ fields = << <<"Tanah">>, <<"Bangunan">> >>

\* ------------------------------------------------ properties of the markers
\* The marker k of the first fetch still lies at its recorded range.
InPlace(k) ==
    /\ sectionVariables[k].endIndex - 1 <= Len(doc)
    /\ SubSeq(doc, sectionVariables[k].startIndex, sectionVariables[k].endIndex - 1)
          = Marker(sectionVariables[k].name)

\* C14: the markers are recorded in the order of the document and taken from
\* the last to the first, one after the other, and whenever the loop turns to
\* a marker the range recorded for it, and for every marker before it, still
\* holds that marker's text in the document as it is then.
C14_RecordedRangesStayValid ==
    [][/\ \A k \in 1..(Len(sectionVariables) - 1) :
             sectionVariables[k].endIndex <= sectionVariables[k + 1].startIndex
       /\ (pc = "loop" /\ i >= 1) => \A k \in 1..i : InPlace(k)
       /\ pc = "get_wait" \/ i' = i \/ i' = i - 1
       /\ (pc = "get_wait" /\ pc' = "loop") => i' = Len(sectionVariables')]_vars

\* The last marker was replaced by a table and the loop is at the first.
C14_Witness ==
    /\ pc = "loop"
    /\ i = 1
    /\ Len(sectionVariables) = 2
    /\ InPlace(1)
    /\ \E k \in sectionVariables[1].endIndex..Len(doc) : doc[k] = TBL

\* The paragraph of body.content that holds index s.
RunOf(s) ==
    LET els == BodyContent(doc, 1)
    IN  els[CHOOSE k \in 1..Len(els) : els[k].startIndex <= s /\ s < els[k].endIndex]

\* The native indices at which a marker starts in a top-level paragraph.
MarkerStarts ==
    {s \in 1..Len(doc) : MarkerAt(doc, s) /\ RunOf(s).kind = "paragraph"}

Scanned == pc = "loop" /\ i = Len(sectionVariables)

\* C18: the range recorded for a marker starts at the native start index of
\* its text run plus the marker's offset in the run, which is the native
\* index of the marker's first character, and ends the marker's length later.
C18_NativeIndexOfTheRun ==
    Scanned =>
        /\ {sectionVariables[k].startIndex : k \in 1..Len(sectionVariables)} = MarkerStarts
        /\ \A k \in 1..Len(sectionVariables) :
              LET v == sectionVariables[k]
                  run == RunOf(v.startIndex)
                  text == SubSeq(doc, run.startIndex, run.endIndex - 1)
              IN  /\ InPlace(k)
                  /\ v.endIndex = v.startIndex + Len(Marker(v.name))
                  /\ MarkerAt(text, v.startIndex - run.startIndex + 1)

\* A marker behind a table and two characters into its run: its offset in
\* the flattened text is not its index.
C18_Witness ==
    /\ Scanned
    /\ doc[1] = TBL
    /\ Len(sectionVariables) = 2
    /\ sectionVariables[1].startIndex = RunOf(sectionVariables[1].startIndex).startIndex + 1

\* -------------------------------------- properties of createSectionTable
HasDelete(call) ==
    \E k \in 1..Len(call.requests) : call.requests[k].op = "deleteContentRange"

\* C15 (as stated): when the batch that deletes a marker's text goes out, the
\* insertTable and the text insertions for its section have gone out before.
C15_DeleteAfterInsertions ==
    \A c \in 1..Len(inFlight) :
        HasDelete(inFlight[c]) => insertRequests # <<>> /\ stylingRequests # <<>>

\* C16 (as stated): the style request behind every insertText of the second
\* batch covers the range from the index of the insertion to that index plus
\* the length of the text.
C16_StyleCoversInsertedText ==
    Building =>
        \A k \in 1..(Len(stylingRequests) - 1) :
            stylingRequests[k].op = "insertText" =>
                /\ stylingRequests[k + 1].op = "updateTextStyle"
                /\ stylingRequests[k + 1].index = stylingRequests[k].index
                /\ stylingRequests[k + 1].endIndex
                      = stylingRequests[k].index + Len(stylingRequests[k].text)

\* C17 (as stated): the last request of the second batch removes the borders
\* of all cells of the table.
C17_BordersRemovedLast ==
    Building => stylingRequests[Len(stylingRequests)].op = "updateTableCellStyle"

\* ------------------------------------------ properties of the scanned text
\* t without the spans of the matches ms, which lie left to right from `at` on.
RECURSIVE Excise(_, _, _)
Excise(t, ms, at) ==
    IF ms = <<>> THEN SubSeq(t, at, Len(t))
    ELSE SubSeq(t, at, Head(ms).from - 1) \o Excise(t, Tail(ms), Head(ms).to + 1)

\* The blocks parseAssetSections recognizes, as spans of the text.
Recognized(t) == AssetSectionMatches(t, 1)

\* C19 (as stated): the text extractVariables scans is the input without the
\* spans of the blocks parseAssetSections recognizes, and the variables are
\* those of the placeholders of that text.
C19_ScansAllButRecognizedBlocks ==
    textPc = "form" =>
        LET outside == Excise(content, Recognized(content), 1)
        IN  /\ StripAssetSections(content, 1) = outside
            /\ variables = CollectVariables(outside, VariableMatches(outside, 1), {})

\* The content of the braces of a placeholder, trimmed.
Inner(placeholder) == trim(SubSeq(placeholder, 3, Len(placeholder) - 2))

FirstColon(s) == IndexOf(s, ":", 1)
SecondColon(s) == IF FirstColon(s) = 0 THEN 0 ELSE IndexOf(s, ":", FirstColon(s) + 1)

NameOf(s) == trim(IF FirstColon(s) = 0 THEN s ELSE SubSeq(s, 1, FirstColon(s) - 1))

\* All that follows the first ':'.
Remainder(s) == IF FirstColon(s) = 0 THEN <<>> ELSE SubSeq(s, FirstColon(s) + 1, Len(s))

\* What lies between the first ':' and the second, or the end.
SecondSegment(s) ==
    IF SecondColon(s) = 0 THEN Remainder(s)
    ELSE SubSeq(s, FirstColon(s) + 1, SecondColon(s) - 1)

OrText(type) == IF type = <<>> THEN <<"text">> ELSE type

\* C20 (as stated): the name of a variable is the trimmed text before the
\* first ':' of its placeholder's content and its type the trimmed whole text
\* after the first ':' (text when there is none).
C20_TypeIsWholeRemainder ==
    textPc = "form" =>
        \A k \in 1..Len(variables) :
            /\ variables[k].name = NameOf(Inner(variables[k].placeholder))
            /\ variables[k].type = OrText(trim(Remainder(Inner(variables[k].placeholder))))

\* C20 (amended): the name of a variable is the trimmed text before the first
\* ':' of its placeholder's content and its type the trimmed text between
\* the first ':' and the second (text when it is empty or there is no ':');
\* what follows a second ':' is dropped.
C20_TypeIsSecondSegment ==
    textPc = "form" =>
        \A k \in 1..Len(variables) :
            /\ variables[k].name = NameOf(Inner(variables[k].placeholder))
            /\ variables[k].type
                  = OrText(trim(SecondSegment(Inner(variables[k].placeholder))))

C20_Witness ==
    /\ textPc = "form"
    /\ Len(variables) = 1
    /\ variables[1].placeholder = V(<<"y", ":", "q", ":", "date">>)
    /\ variables[1].name = <<"y">>
    /\ variables[1].type = <<"q">>

\* ------------------------------------------------ properties of the types
TypeWords == {<<"text">>, <<"number">>, <<"date">>, <<"email">>}

\* C21 (as stated): every placeholder the loop visits has its name among the
\* variables, whatever its type suffix, and every variable has one of the four
\* types: a suffix that is missing, empty or none of the four gives text.
C21_TypeIsOneOfFour ==
    textPc = "form" =>
        /\ \A k \in 1..Len(Occurrences(content)) :
              Occurrences(content)[k].name \in Names(variables)
        /\ \A k \in 1..Len(variables) :
              /\ variables[k].type \in TypeWords
              /\ trim(SecondSegment(Inner(variables[k].placeholder))) \notin TypeWords
                    => variables[k].type = <<"text">>

\* ------------------------------------- properties of handleAssetSections
Handled == assetPc \in {"replaced", "replacedFullText"} /\ Len(assetSectionData) > 0

\* The text the handleAssetSections that has run has scanned.
ScannedText ==
    IF assetPc = "replaced" THEN extractTextFromDocumentSimple(body)
    ELSE extractFullDocumentText(body)

\* The blocks of the scanned text, left to right: name and literal text.
ScannedBlocks ==
    LET ms == AssetSectionMatches(ScannedText, 1)
    IN  [k \in 1..Len(ms) |->
            [name |-> trim(OpenTagName(ScannedText, ms[k].from)),
             literal |-> SubSeq(ScannedText, ms[k].from, ms[k].to)]]

BlockNames == {ScannedBlocks[k].name : k \in 1..Len(ScannedBlocks)}

FirstBlock(n) == Min({k \in 1..Len(ScannedBlocks) : ScannedBlocks[k].name = n})

Rendering ==
    IF assetPc = "replaced" THEN ReplacementContent(assetSectionData, 1)
    ELSE FormattedContent(assetSectionData, 1)

\* The requests are replace-all operations with the rendering of the
\* configured sections as replacement.
ReplaceWithRendering ==
    \A k \in 1..Len(assetRequests) :
        /\ assetRequests[k].replaceText = Rendering
        /\ ~assetRequests[k].matchCase

\* One request per distinct name, for the literal text of a block of that name.
OnePerName ==
    /\ Len(assetRequests) = Cardinality(BlockNames)
    /\ \A n \in BlockNames :
          \E k \in 1..Len(assetRequests) : \E b \in 1..Len(ScannedBlocks) :
              ScannedBlocks[b].name = n /\ assetRequests[k].text = ScannedBlocks[b].literal

\* C22 (as stated): with a section configured, handleAssetSections emits one
\* replace-all operation per distinct block name of the text, for the literal
\* text of the block and with the rendering of the sections as replacement.
C22_OneOperationPerName ==
    Handled => ReplaceWithRendering /\ OnePerName

\* C22 (amended): the handleAssetSections with the set of processed names
\* emits one operation per distinct trimmed name, for the literal text of the
\* first block of that name, in the order of these blocks; the
\* handleAssetSections that scans the full text emits one operation per
\* block, in the order of the blocks, and so several for a name that repeats.
\* The replacement of every operation is the rendering of the sections.
C22_OnePerNameOrPerBlock ==
    Handled =>
        /\ ReplaceWithRendering
        /\ assetPc = "replaced" =>
              /\ OnePerName
              /\ \A k \in 1..Len(assetRequests) :
                    \E n \in BlockNames :
                        assetRequests[k].text = ScannedBlocks[FirstBlock(n)].literal
              /\ \A k, j \in 1..Len(assetRequests) :
                    k < j =>
                        \E n, m \in BlockNames :
                            /\ assetRequests[k].text = ScannedBlocks[FirstBlock(n)].literal
                            /\ assetRequests[j].text = ScannedBlocks[FirstBlock(m)].literal
                            /\ FirstBlock(n) < FirstBlock(m)
        /\ assetPc = "replacedFullText" =>
              /\ Len(assetRequests) = Len(ScannedBlocks)
              /\ \A k \in 1..Len(assetRequests) :
                    assetRequests[k].text = ScannedBlocks[k].literal

\* Two blocks of one name with different bodies: one operation, for the first.
C22_Witness ==
    /\ assetPc = "replaced"
    /\ Len(assetSectionData) = 2
    /\ Len(ScannedBlocks) = 2
    /\ BlockNames = {<<"S">>}
    /\ ScannedBlocks[1].literal # ScannedBlocks[2].literal
    /\ Len(assetRequests) = 1
    /\ assetRequests[1].text = Block(<<"S">>, <<"a">>)

\* ------------------------------------------- properties of the rendering
\* The pieces of a text between its newlines.
RECURSIVE SplitLines(_)
SplitLines(t) ==
    LET n == IndexOf(t, NL, 1)
    IN  IF n = 0 THEN <<t>>
        ELSE <<SubSeq(t, 1, n - 1)>> \o SplitLines(SubSeq(t, n + 1, Len(t)))

MinimumOfVariant == IF assetPc = "replaced" THEN 25 ELSE 30
MarginOfVariant == IF assetPc = "replaced" THEN 5 ELSE 10

Longest(sec) == Max({Len(sec.fields[k].key) : k \in 1..Len(sec.fields)})

\* The column of the colon, counted from 0.
ColonColumn(sec) ==
    IF sec.fields = <<>> THEN MinimumOfVariant
    ELSE Max({MinimumOfVariant, Longest(sec) + MarginOfVariant})

\* The line of a field: key, spaces up to the column, ": ", value.
IsFieldLine(line, field, col) ==
    /\ Len(line) = col + 2 + Len(field.value)
    /\ SubSeq(line, 1, Len(field.key)) = field.key
    /\ \A j \in (Len(field.key) + 1)..col : line[j] = " "
    /\ col > Len(field.key)
    /\ line[col + 1] = ":"
    /\ line[col + 2] = " "
    /\ SubSeq(line, col + 3, Len(line)) = field.value

\* The lines a section takes: its title and an empty line, then its fields.
TitleLines(sec) == IF sec.title # <<>> THEN 2 ELSE 0
SectionSize(sec) == TitleLines(sec) + Len(sec.fields)

\* The line at which section k starts; two empty lines part two sections.
RECURSIVE SectionStart(_, _)
SectionStart(secs, k) ==
    IF k = 1 THEN 1
    ELSE SectionStart(secs, k - 1) + SectionSize(secs[k - 1]) + 2

IsRendering(text, secs) ==
    LET lines == SplitLines(text)
        n == Len(secs)
    IN  /\ Len(lines) = SectionStart(secs, n) + SectionSize(secs[n])
        /\ lines[Len(lines)] = <<>>
        /\ \A k \in 1..n :
              LET s == SectionStart(secs, k)
              IN  /\ k > 1 => lines[s - 1] = <<>> /\ lines[s - 2] = <<>>
                  /\ secs[k].title # <<>> =>
                        lines[s] = secs[k].title /\ lines[s + 1] = <<>>
                  /\ \A f \in 1..Len(secs[k].fields) :
                        IsFieldLine(lines[s + TitleLines(secs[k]) + f - 1],
                                    secs[k].fields[f], ColonColumn(secs[k]))

\* C23: in the rendering that replaces a block the sections stand in the
\* order configured, each with its fields in the order supplied; the line of
\* a field is key, spaces, ": ", value, and the colon of every field of a
\* section stands at the column max(minimum, longest key + margin), where the
\* minimum is 25 (margin 5) or 30 (margin 10).
C23_ColonAtOneColumn ==
    Handled =>
        \A k \in 1..Len(assetRequests) :
            IsRendering(assetRequests[k].replaceText, assetSectionData)

\* A section whose longest key has 21 characters, colon at column 26, and
\* after it a section whose longest key has 26, colon at column 31.
C23_Witness ==
    /\ assetPc = "replaced"
    /\ Len(assetRequests) = 1
    /\ Len(assetSectionData) = 2
    /\ assetSectionData[1].title = <<"T">>
    /\ Len(assetSectionData[1].fields) = 2
    /\ assetSectionData[2].title = <<>>
    /\ Len(assetSectionData[2].fields) = 2
    /\ LET lines == SplitLines(assetRequests[1].replaceText)
       IN  /\ lines[3][27] = ":" /\ lines[4][27] = ":"
           /\ lines[7][32] = ":" /\ lines[8][32] = ":"

\* --------------------------------------------- properties of letter case
\* The value the form has given the variable of exactly this name.
ValueOf(n) == values[CHOOSE k \in 1..Len(values) : values[k].key = n].value

\* The text with the plain placeholder of every variable replaced by the
\* value of the variable of exactly that name.
RECURSIVE SubstituteOwn(_, _)
SubstituteOwn(t, at) ==
    IF at > Len(t) THEN <<>>
    ELSE LET here == {k \in 1..Len(values) : IsPrefixAt(t, at, V(values[k].key))}
         IN  IF here # {}
             THEN LET k == Min(here)
                  IN  values[k].value \o SubstituteOwn(t, at + Len(V(values[k].key)))
             ELSE <<t[at]>> \o SubstituteOwn(t, at + 1)

\* A text all of whose braces belong to the plain placeholders {{x}} and {{X}}.
PlainCaseText(t) ==
    LET ms == VariableMatches(t, 1)
    IN  /\ \A k \in 1..Len(ms) :
              SubSeq(t, ms[k].from, ms[k].to) \in {V(<<"x">>), V(<<"X">>)}
        /\ \A at \in 1..Len(t) :
              t[at] \in {"{", "}"} => \E k \in 1..Len(ms) : ms[k].from <= at /\ at <= ms[k].to

\* C24 (as stated): x and X are two variables, and once the requests are
\* applied in order every placeholder of each of them is replaced by the
\* value of that variable, not by the value of the other.
C24_OwnValuePerCase ==
    (/\ textPc = "generated"
     /\ PlainCaseText(content)
     /\ {<<"x">>, <<"X">>} \subseteq Names(variables)) =>
        /\ Len(variables) = 2
        /\ output = SubstituteOwn(content, 1)

\* ------------------------------------------ properties of a failed call
Valid(k) ==
    /\ sections[sectionVariables[k].name].given
    /\ ~SkipsSection(sections[sectionVariables[k].name])

\* The number of rows of the table that starts at index p.
RowsAt(p) ==
    LET ends == {e \in p..Len(doc) : doc[e] = END}
    IN  Cardinality({r \in p..Min(ends) : doc[r] = ROW})

\* At or behind the place of marker k stands a table of the size
\* createSectionTable gives the table of its section.
HasTableFor(k) ==
    \E p \in sectionVariables[k].startIndex..Len(doc) :
        /\ doc[p] = TBL
        /\ RowsAt(p) = 1 + Len(sections[sectionVariables[k].name].keyValuePairs)

\* C25 (as stated): when replaceSectionVariables has returned or thrown, of
\* every marker with valid section data the document holds the text, at its
\* recorded place, or the table created for it.
C25_MarkerOrTable ==
    pc \in {"done", "failed"} =>
        \A k \in 1..Len(sectionVariables) : Valid(k) => InPlace(k) \/ HasTableFor(k)

\* ------------------------------------ properties of the table that is found
\* The table findTableElementAtIndex returns for the marker of the iteration.
Found == findTableElementAtIndex(document, sectionVar.startIndex)

\* C26 (as stated): the table createSectionTable finds in the fetched document
\* is the one its insertTable request has created, which starts behind the
\* newline the store puts in at the insertion point.
C26_FindsTheInsertedTable ==
    (document # <<>> /\ i >= 1 /\ Found # NoElement) =>
        /\ Found.startIndex = sectionVar.startIndex + 1
        /\ Building => stylingRequests[1].index = sectionVar.startIndex + 1

\* ------------------------------------ properties of the markers in cells
ValidName(n) == sections[n].given /\ ~SkipsSection(sections[n])

\* C27 (as stated): the markers replaceSectionVariables locates are the
\* markers extractSectionVariables finds in the extracted text, and when it
\* has returned no marker with valid section data is left in that text.
C27_EveryExtractedMarkerReplaced ==
    /\ Scanned =>
          [k \in 1..Len(sectionVariables) |-> sectionVariables[k].name]
              = extractSectionVariables(DocumentText(doc))
    /\ pc = "done" =>
          \A k \in 1..Len(extractSectionVariables(DocumentText(doc))) :
              ~ValidName(extractSectionVariables(DocumentText(doc))[k])

\* ---------------------------------- properties of detection and replacement
\* C28 (as stated): with a section configured, the text handleAssetSections
\* scans is the text fetchDocumentContent has scanned, and every block
\* fetchDocumentContent reports is the search text of a replace operation.
C28_EveryDetectedBlockReplaced ==
    Handled =>
        /\ ScannedText = extractTextFromDocument(body)
        /\ \A k \in 1..Len(detected) :
              \E r \in 1..Len(assetRequests) :
                  assetRequests[r].text = detected[k].placeholder

\* ------------------------------------------------ properties of the preview
\* C29 (as stated): the text of the preview and the text the replace-all
\* operations make of the template are the same, for the same values.
C29_PreviewIsTheOutput ==
    textPc = "generated" => previewContent = output

\* --------------------------------------------- properties of VariableForm
\* C30 (as stated): for a template with an asset section the form comes to
\* show the AssetManager, with or without simple variables.
C30_AssetManagerIsShown ==
    (currentStep = "mounting" /\ formAssetSections > 0) ~> Rendered.assetManager
====
